---- MODULE Spec2Model ----
(***************************************************************************)
(* Model of the window state machine of the ESP32-H2 ZigBee smart window   *)
(* firmware (esp32-h2-zigbee-window/main): state_management.c on top of    *)
(* servo_control.c, zigbee_device.c and the NVS key/value store, driven by *)
(* the entry points of main.c; and of the motion controller of the other   *)
(* firmware tree of the repository (main/servo_control.c with the current  *)
(* sensor, driven by main/zigbee_handler.c and the main task), which is a  *)
(* state machine of its own, MotionSpec.  FaultSpec is the first state     *)
(* machine with failing NVS calls, TaskSpec the motion controller called   *)
(* by main_task and zigbee_task step by step.                              *)
(*                                                                         *)
(* Every C function is an operator from a "world" record (the module       *)
(* contexts plus the log of the calls made so far) to the world it leaves  *)
(* behind; W.ret is the esp_err_t it returns.  An action applies one       *)
(* public entry point to the current world.                                *)
(***************************************************************************)
EXTENDS Integers, Sequences, FiniteSets, TLC

VARIABLES
    state_ctx,   \* state_management.c: static state_ctx
    servo_ctx,   \* servo_control.c: static servo_ctx
    zigbee_ctx,  \* zigbee_device.c: static zigbee_ctx (mode/percentage last reported)
    nvs,         \* contents of the NVS namespace "window_state"
    now,         \* esp_timer_get_time() / 1000, in ms
    last,        \* the most recent entry-point call: arguments, result, effects
    prev,        \* the entry-point call before it
    rt,          \* progress of a save / restart / restore sequence
    handle_servo,            \* main/servo_control.c: static servo_t handle_servo
    gap_servo,               \* main/servo_control.c: static servo_t gap_servo
    current_window_mode,     \* main/servo_control.c: static current_window_mode
    current_gap_percentage,  \* main/servo_control.c: static current_gap_percentage
    resistance_detected,     \* main/servo_control.c: static resistance_detected
    current_state,           \* main/zigbee_handler.c: static current_state
    trips,                   \* number of sensor readings above the threshold so far
    call,                    \* the most recent call into main/servo_control.c
    device,                  \* main/state_management.c: static current_state, and
                             \* the record in its NVS namespace
    tasks,                   \* where main_task and zigbee_task are in their code
    zigbee_cmd_queue,        \* the queue-based ZigBee handler: static zigbee_cmd_queue
    ota_ctx,                 \* ota_update.c: static ota_ctx
    power_state              \* main/power_management.c: static power_state, and
                             \* whether the chip is in deep sleep

\* The command queue, the OTA context and the power state belong to neither
\* state machine: both leave them alone
smvars == <<state_ctx, servo_ctx, zigbee_ctx, nvs, now, last, prev, rt,
            zigbee_cmd_queue, ota_ctx, power_state>>
mcvars == <<handle_servo, gap_servo, current_window_mode, current_gap_percentage,
            resistance_detected, current_state, trips, call, device,
            zigbee_cmd_queue, ota_ctx, power_state>>
vars == <<state_ctx, servo_ctx, zigbee_ctx, nvs, now, last, prev, rt,
          handle_servo, gap_servo, current_window_mode, current_gap_percentage,
          resistance_detected, current_state, trips, call, device, tasks,
          zigbee_cmd_queue, ota_ctx, power_state>>

----------------------------------------------------------------------------
(* Program constants *)

WINDOW_MODE_CLOSED == 0
WINDOW_MODE_OPEN == 1
WINDOW_MODE_VENTILATE == 2
WINDOW_MODE_CUSTOM == 3

HANDLE_POSITION_CLOSED == 0
HANDLE_POSITION_OPEN == 90
HANDLE_POSITION_VENTILATE == 180

ZIGBEE_ALERT_LOW_BATTERY == 0
ZIGBEE_ALERT_STUCK == 1
ZIGBEE_ALERT_MODE_CHANGED == 2
ZIGBEE_ALERT_PROTECTION == 3

SERVO_TYPE_HANDLE == 0
SERVO_TYPE_GAP == 1

VENTILATE_GAP_PERCENTAGE == 20
OPEN_GAP_PERCENTAGE == 100
MOTION_TIMEOUT_MS == 5000
SAVE_INTERVAL_MS == 300000
STATE_TASK_PERIOD_MS == 100

\* The clock is modelled in units of 4 ms, so that the range of the 32-bit
\* last_action_time (2^32 ms = 2^30 units) is a number TLC can hold.
TimeUnits(ms) == ms \div 4
UINT32_RANGE_UNITS == 1073741824
ToUint32(t) == t % UINT32_RANGE_UNITS
\* a - b in unsigned 64-bit arithmetic: a negative difference wraps to a huge value
U64Sub(a, b) == IF a >= b THEN a - b ELSE 2147483647

ESP_OK == "ESP_OK"
ESP_ERR_INVALID_ARG == "ESP_ERR_INVALID_ARG"
ESP_ERR_INVALID_STATE == "ESP_ERR_INVALID_STATE"
ESP_ERR_TIMEOUT == "ESP_ERR_TIMEOUT"
ESP_ERR_NVS_NOT_FOUND == "ESP_ERR_NVS_NOT_FOUND"
ESP_FAIL == "ESP_FAIL"

NVS_KEY_MODE == "mode"
\* Faulty variant: the handle position is stored under the key of the gap
NVS_KEY_HANDLE_POS_Clash == "gap_pct"
NVS_KEY_HANDLE_POS == "handle_pos"
NVS_KEY_GAP_PERCENTAGE == "gap_pct"
NVS_KEY_CALIBRATED == "calibrated"
NVS_KEY_WINDOW_MODE == "window_mode"
NvsKeys == {NVS_KEY_MODE, NVS_KEY_HANDLE_POS, NVS_KEY_GAP_PERCENTAGE, NVS_KEY_CALIBRATED}
NotFound == -1

\* main/servo_control.c, main/zigbee_handler.c and their headers
WINDOW_MODE_VENT == 2
ANGLE_CLOSED == 0
ANGLE_OPEN == 90
ANGLE_VENT == 180
GAP_ANGLE_RANGE == 90
SERVO_MAX_ANGLE == 180
DEFAULT_RESISTANCE_THRESHOLD == 2000
ADC_FULL_SCALE == 4095
ZIGBEE_STATE_DISCONNECTED == 0
ZIGBEE_STATE_CONNECTING == 1
ZIGBEE_STATE_CONNECTED == 2
ZIGBEE_ALERT_RESISTANCE == 1
ESP_ZIGBEE_ALERT_STUCK == 1
ESP_ZIGBEE_STATE_DISCONNECTED == 0
ESP_ZIGBEE_STATE_CONNECTING == 1
ESP_ZIGBEE_STATE_CONNECTED == 2
ESP_ZIGBEE_STATE_PAIRED == 3
ESP_ZIGBEE_WINDOW_MODE_CLOSED == 0
ESP_ZIGBEE_WINDOW_MODE_OPEN == 1
ESP_ZIGBEE_WINDOW_MODE_VENTILATE == 2
ZIGBEE_EVENT_CONNECTED == 1
ZIGBEE_EVENT_DISCONNECTED == 2
CONNECTION_RETRIES == 3
ZIGBEE_CMD_QUEUE_LENGTH == 10
OTA_CHECK_INTERVAL_MS == 86400000
SLEEP_TIMEOUT_MS == 300000
POWER_MODE_NORMAL == 0
POWER_MODE_LOW_POWER == 1
POWER_MODE_SLEEP == 2
LIFT_OPEN_PERCENTAGE == 75
ESP_ZIGBEE_CMD_SET_MODE == 0
ESP_ZIGBEE_CMD_SET_POSITION == 1
ESP_ZIGBEE_CMD_STOP == 2
ESP_ZIGBEE_CMD_CALIBRATE == 3

----------------------------------------------------------------------------
(* Bounds and input sets *)

MaxAdvances == 1          \* the clock is advanced at most this many times
ClockStepMs == 5000       \* by this many ms each time

ModeTags == 0 .. 4                         \* 4 is not a window_mode_t
HandleAngles == {0, 45, 90, 180}           \* 45 is not a handle_position_t
Percentages == {0, 20, 100, 101}           \* 101 is out of range
CommandCodes == {1}

\* Inputs of the motion controller
MaxTrips == 1             \* readings above the threshold in one behaviour
TripStep == 5             \* the reading of a call that is above the threshold
MaxPowerSteps == 6         \* PowerSpec: the clock is advanced at most this many times
PowerStepMs == 60000       \* by this many ms each time
MaxOtaAdvances == 4        \* half check intervals that pass in one behaviour
MaxOtaPatch == 2           \* highest patch number of a firmware version
MaxArrivals == 11         \* commands the stack callback receives in one behaviour
GapTripStep == 95         \* a reading taken after a handle move of 90 degrees
TripSteps == {0, TripStep, GapTripStep}
MotionModeTags == 0 .. 3
MotionPercentages == {0, 50, 100, 101}
MotionCommands == {ESP_ZIGBEE_CMD_SET_MODE, ESP_ZIGBEE_CMD_SET_POSITION,
                   ESP_ZIGBEE_CMD_CALIBRATE,
                   ESP_ZIGBEE_CMD_STOP}    \* zigbee_on_command has no case for it
MotionPayloads == {<<>>, <<WINDOW_MODE_OPEN>>, <<101>>}

\* Inputs of the two tasks
TaskModes == {WINDOW_MODE_CLOSED, WINDOW_MODE_OPEN}   \* the mode restored at boot
TaskPercentages == {0, 50}                           \* the gap restored at boot
TaskCommands == {ESP_ZIGBEE_CMD_SET_MODE, ESP_ZIGBEE_CMD_SET_POSITION}
TaskPayloads == {<<WINDOW_MODE_OPEN>>}

\* Inputs of the state machine when NVS calls may fail
MaxFaultPoint == 5        \* the NVS call of an entry point that fails (0: none)
FaultPoints == 0 .. MaxFaultPoint
FaultModes == {WINDOW_MODE_CLOSED, WINDOW_MODE_OPEN}
FaultHandleAngles == {HANDLE_POSITION_CLOSED, HANDLE_POSITION_OPEN}
FaultPercentages == {0, 100}

MaxTickAdvances == 4     \* TickSpec: the clock is advanced at most this many times
TickStepMs == 2500       \* by this many ms each time
DriverAngles == {-1, 0, 90, 180, 181}   \* -1 and 181 are outside 0 .. 180
RecordPayloads == {<<WINDOW_MODE_CLOSED>>, <<WINDOW_MODE_OPEN>>, <<50>>}
MaxRaceTimeouts == 1     \* RaceSpec: the clock goes on by the motion timeout at
                         \* most this many times after a multiple of the save interval
MaxRaceIntervals == 1    \* and by the save interval at most this many times
MaxSavePeriods == 6005   \* SaveSpec: the turns of the loop of state_task in one
                         \* behaviour (two save intervals and five turns)
MaxTaskCommands == 1      \* commands that zigbee_task receives in one behaviour
MaxArrivalPass == 1       \* a command that arrives during a motion of main_task
                          \* arrives no later than this pass of its loop
Payloads == {<<>>, <<WINDOW_MODE_OPEN>>, <<WINDOW_MODE_OPEN, 101>>}
              \cup {<<m, 20>> : m \in ModeTags}

----------------------------------------------------------------------------
(* The world a C function runs in *)

EmptyNvs == [k \in NvsKeys |-> NotFound]

DefaultWindowState ==
    [mode |-> WINDOW_MODE_CLOSED, handle_pos |-> HANDLE_POSITION_CLOSED,
     gap_percentage |-> 0, calibrated |-> FALSE, in_motion |-> FALSE,
     last_action_time |-> 0]

state_config ==
    [save_to_nvs |-> TRUE, save_interval_ms |-> SAVE_INTERVAL_MS,
     restore_on_boot |-> TRUE]

\* The module contexts as the C runtime initialises them at power-on
state_ctx_reset ==
    [initialized |-> FALSE,
     config |-> [save_to_nvs |-> FALSE, save_interval_ms |-> 0,
                 restore_on_boot |-> FALSE],
     state |-> DefaultWindowState, last_save_time |-> 0, nvs_opened |-> FALSE]

servo_ctx_reset ==
    [initialized |-> FALSE, handle_pos |-> HANDLE_POSITION_CLOSED,
     gap_percentage |-> 0, handle_calibrated |-> FALSE, gap_calibrated |-> FALSE]

\* esp_zigbee_lib.c: the static zb_ctx; message is the window-state message
\* last put on message_queue (<<>>: none yet)
zb_ctx_reset ==
    [state |-> ESP_ZIGBEE_STATE_DISCONNECTED, connection_retry_count |-> 0,
     message |-> <<>>]

zigbee_ctx_reset ==
    [initialized |-> FALSE, state |-> ZIGBEE_STATE_DISCONNECTED,
     current_mode |-> WINDOW_MODE_CLOSED, current_percentage |-> 0,
     event_group |-> {}, zb_ctx |-> zb_ctx_reset]

World ==
    [state_ctx |-> state_ctx, servo_ctx |-> servo_ctx, zigbee_ctx |-> zigbee_ctx,
     nvs |-> nvs, now |-> now,
     cmds |-> <<>>, reports |-> <<>>, alerts |-> <<>>, writes |-> 0,
     nvs_calls |-> 0, nvs_fail |-> 0, val |-> 0,
     ret |-> ESP_OK]

\* The world in which the f-th NVS call of the entry point fails (0: none does)
WorldF(f) == [World EXCEPT !.nvs_fail = f]

Ret(W, err) == [W EXCEPT !.ret = err]

----------------------------------------------------------------------------
(* servo_control.c *)

servo_init(W) ==
    IF W.servo_ctx.initialized THEN Ret(W, ESP_OK)
    ELSE [W EXCEPT !.servo_ctx.initialized = TRUE, !.ret = ESP_OK]

servo_set_handle_position(W, position) ==
    IF ~W.servo_ctx.initialized THEN Ret(W, ESP_ERR_INVALID_STATE)
    ELSE IF position # HANDLE_POSITION_CLOSED /\ position # HANDLE_POSITION_OPEN
            /\ position # HANDLE_POSITION_VENTILATE
         THEN Ret(W, ESP_ERR_INVALID_ARG)
    ELSE [W EXCEPT !.servo_ctx.handle_pos = position,
                   !.cmds = Append(@, <<SERVO_TYPE_HANDLE, position>>),
                   !.ret = ESP_OK]

servo_set_gap_percentage(W, percentage) ==
    IF ~W.servo_ctx.initialized THEN Ret(W, ESP_ERR_INVALID_STATE)
    ELSE IF percentage > 100 THEN Ret(W, ESP_ERR_INVALID_ARG)
    ELSE [W EXCEPT !.servo_ctx.gap_percentage = percentage,
                   !.cmds = Append(@, <<SERVO_TYPE_GAP, percentage>>),
                   !.ret = ESP_OK]

servo_get_handle_position(W) == W.servo_ctx.handle_pos

servo_get_gap_percentage(W) == W.servo_ctx.gap_percentage

servo_check_resistance(W, type) == FALSE

----------------------------------------------------------------------------
(* zigbee_device.c *)

\* esp_zigbee_lib.c
esp_zigbee_report_window_state(W, mode, percentage) ==
    IF mode > ESP_ZIGBEE_WINDOW_MODE_VENTILATE THEN Ret(W, ESP_ERR_INVALID_ARG)
    ELSE IF percentage > 100 THEN Ret(W, ESP_ERR_INVALID_ARG)
    ELSE IF W.zigbee_ctx.zb_ctx.state # ESP_ZIGBEE_STATE_CONNECTED
            /\ W.zigbee_ctx.zb_ctx.state # ESP_ZIGBEE_STATE_PAIRED
         THEN Ret(W, ESP_ERR_INVALID_STATE)
    ELSE [W EXCEPT !.zigbee_ctx.zb_ctx.message = <<mode, percentage>>,
                   !.ret = ESP_OK]

zigbee_device_report_state(W, mode, percentage) ==
    IF ~W.zigbee_ctx.initialized THEN Ret(W, ESP_ERR_INVALID_STATE)
    ELSE LET W1 == [W EXCEPT !.zigbee_ctx.current_mode = mode,
                             !.zigbee_ctx.current_percentage = percentage,
                             !.reports = Append(@, <<mode, percentage>>)]
         IN CASE mode = WINDOW_MODE_CLOSED ->
                    esp_zigbee_report_window_state(W1, ESP_ZIGBEE_WINDOW_MODE_CLOSED,
                                                   percentage)
              [] mode = WINDOW_MODE_OPEN ->
                    esp_zigbee_report_window_state(W1, ESP_ZIGBEE_WINDOW_MODE_OPEN,
                                                   percentage)
              [] mode = WINDOW_MODE_VENTILATE ->
                    esp_zigbee_report_window_state(W1, ESP_ZIGBEE_WINDOW_MODE_VENTILATE,
                                                   percentage)
              [] OTHER -> Ret(W1, ESP_ERR_INVALID_ARG)

zigbee_device_send_alert(W, alert_type, value) ==
    IF ~W.zigbee_ctx.initialized THEN Ret(W, ESP_ERR_INVALID_STATE)
    ELSE IF alert_type \notin {ZIGBEE_ALERT_LOW_BATTERY, ZIGBEE_ALERT_STUCK,
                               ZIGBEE_ALERT_MODE_CHANGED, ZIGBEE_ALERT_PROTECTION}
         THEN Ret(W, ESP_ERR_INVALID_ARG)
    ELSE [W EXCEPT !.alerts = Append(@, <<alert_type, value>>), !.ret = ESP_OK]

zigbee_device_init(W) ==
    IF W.zigbee_ctx.initialized THEN Ret(W, ESP_OK)
    ELSE [W EXCEPT !.zigbee_ctx = [initialized |-> TRUE,
                                   state |-> ZIGBEE_STATE_DISCONNECTED,
                                   current_mode |-> 0, current_percentage |-> 0,
                                   event_group |-> {}, zb_ctx |-> zb_ctx_reset],
                   !.ret = ESP_OK]

\* esp_zigbee_lib.c
esp_zigbee_start(W) ==
    IF W.zigbee_ctx.zb_ctx.state # ESP_ZIGBEE_STATE_DISCONNECTED THEN Ret(W, ESP_OK)
    ELSE [W EXCEPT !.zigbee_ctx.zb_ctx.connection_retry_count = 0,
                   !.zigbee_ctx.zb_ctx.state = ESP_ZIGBEE_STATE_CONNECTING,
                   !.ret = ESP_OK]

zigbee_on_connected(W) ==
    [W EXCEPT !.zigbee_ctx.event_group = @ \cup {ZIGBEE_EVENT_CONNECTED}]

zigbee_on_disconnected(W) ==
    [W EXCEPT !.zigbee_ctx.event_group = @ \cup {ZIGBEE_EVENT_DISCONNECTED}]

esp_zigbee_stop(W) ==
    IF W.zigbee_ctx.zb_ctx.state = ESP_ZIGBEE_STATE_DISCONNECTED THEN Ret(W, ESP_OK)
    ELSE [zigbee_on_disconnected(W)
             EXCEPT !.zigbee_ctx.zb_ctx.state = ESP_ZIGBEE_STATE_DISCONNECTED,
                    !.ret = ESP_OK]

zigbee_connection_timer_callback(W) ==
    IF W.zigbee_ctx.zb_ctx.state # ESP_ZIGBEE_STATE_CONNECTING THEN W
    ELSE LET W1 == [W EXCEPT !.zigbee_ctx.zb_ctx.connection_retry_count = @ + 1]
         IN IF W1.zigbee_ctx.zb_ctx.connection_retry_count >= CONNECTION_RETRIES
            THEN zigbee_on_connected(
                    [W1 EXCEPT !.zigbee_ctx.zb_ctx.state = ESP_ZIGBEE_STATE_PAIRED])
            ELSE W1

zigbee_device_start(W) ==
    IF ~W.zigbee_ctx.initialized THEN Ret(W, ESP_ERR_INVALID_STATE)
    ELSE IF W.zigbee_ctx.state # ZIGBEE_STATE_DISCONNECTED THEN Ret(W, ESP_OK)
    ELSE LET W1 == esp_zigbee_start(W)
         IN IF W1.ret # ESP_OK THEN W1
            ELSE [W1 EXCEPT !.zigbee_ctx.state = ZIGBEE_STATE_CONNECTING,
                            !.ret = ESP_OK]

zigbee_device_stop(W) ==
    IF ~W.zigbee_ctx.initialized THEN Ret(W, ESP_ERR_INVALID_STATE)
    ELSE IF W.zigbee_ctx.state = ZIGBEE_STATE_DISCONNECTED THEN Ret(W, ESP_OK)
    ELSE LET W1 == esp_zigbee_stop(W)
         IN IF W1.ret # ESP_OK THEN W1
            ELSE [W1 EXCEPT !.zigbee_ctx.state = ZIGBEE_STATE_DISCONNECTED,
                            !.ret = ESP_OK]

zigbee_device_get_state(W) == W.zigbee_ctx.state

\* One turn of the loop of zigbee_command_task that xEventGroupWaitBits ended
\* with the bits set so far, which it cleared
zigbee_command_task(W) ==
    LET bits == W.zigbee_ctx.event_group
        W0 == [W EXCEPT !.zigbee_ctx.event_group = {}]
        zigbee_mode == CASE W0.zigbee_ctx.current_mode = WINDOW_MODE_CLOSED ->
                                ESP_ZIGBEE_WINDOW_MODE_CLOSED
                          [] W0.zigbee_ctx.current_mode = WINDOW_MODE_OPEN ->
                                ESP_ZIGBEE_WINDOW_MODE_OPEN
                          [] W0.zigbee_ctx.current_mode = WINDOW_MODE_VENTILATE ->
                                ESP_ZIGBEE_WINDOW_MODE_VENTILATE
                          [] OTHER -> ESP_ZIGBEE_WINDOW_MODE_CLOSED
        W1 == IF ZIGBEE_EVENT_CONNECTED \in bits
              THEN esp_zigbee_report_window_state(
                      [W0 EXCEPT !.zigbee_ctx.state = ZIGBEE_STATE_CONNECTED],
                      zigbee_mode, W0.zigbee_ctx.current_percentage)
              ELSE W0
        W2 == IF ZIGBEE_EVENT_DISCONNECTED \in bits
              THEN [W1 EXCEPT !.zigbee_ctx.state = ZIGBEE_STATE_DISCONNECTED]
              ELSE W1
    IN Ret(W2, ESP_OK)

----------------------------------------------------------------------------
(* The NVS store.  Each call is counted; the call numbered W.nvs_fail fails. *)

NvsCall(W) == [W EXCEPT !.nvs_calls = @ + 1]
NvsFails(W) == W.nvs_calls + 1 = W.nvs_fail

nvs_open(W) ==
    IF NvsFails(W) THEN Ret(NvsCall(W), ESP_FAIL) ELSE Ret(NvsCall(W), ESP_OK)

nvs_set_u8(W, key, value) ==
    IF NvsFails(W) THEN Ret(NvsCall(W), ESP_FAIL)
    ELSE [NvsCall(W) EXCEPT !.nvs[key] = value % 256, !.writes = @ + 1,
                            !.ret = ESP_OK]

nvs_get_u8(W, key) ==
    IF NvsFails(W) THEN Ret(NvsCall(W), ESP_FAIL)
    ELSE IF W.nvs[key] = NotFound THEN Ret(NvsCall(W), ESP_ERR_NVS_NOT_FOUND)
    ELSE [NvsCall(W) EXCEPT !.val = W.nvs[key], !.ret = ESP_OK]

nvs_commit(W) ==
    IF NvsFails(W) THEN Ret(NvsCall(W), ESP_FAIL) ELSE Ret(NvsCall(W), ESP_OK)

nvs_erase_all(W) ==
    IF NvsFails(W) THEN Ret(NvsCall(W), ESP_FAIL)
    ELSE [NvsCall(W) EXCEPT !.nvs = EmptyNvs, !.writes = @ + 1, !.ret = ESP_OK]

----------------------------------------------------------------------------
(* state_management.c: internal helpers *)

BoolToU8(b) == IF b THEN 1 ELSE 0

state_update_last_action_time(W) ==
    [W EXCEPT !.state_ctx.state.last_action_time = ToUint32(W.now)]

state_open_nvs(W) ==
    LET W0 == IF W.state_ctx.nvs_opened
              THEN [W EXCEPT !.state_ctx.nvs_opened = FALSE] ELSE W
        W1 == nvs_open(W0)
    IN IF W1.ret # ESP_OK THEN W1
       ELSE [W1 EXCEPT !.state_ctx.nvs_opened = TRUE, !.ret = ESP_OK]

state_save_to_nvs(W) ==
    IF ~W.state_ctx.nvs_opened THEN Ret(W, ESP_ERR_INVALID_STATE)
    ELSE
    LET st == W.state_ctx.state
        W1 == nvs_set_u8(W, NVS_KEY_MODE, st.mode)
        W2 == nvs_set_u8(W1, NVS_KEY_HANDLE_POS, st.handle_pos)
        W3 == nvs_set_u8(W2, NVS_KEY_GAP_PERCENTAGE, st.gap_percentage)
        W4 == nvs_set_u8(W3, NVS_KEY_CALIBRATED, BoolToU8(st.calibrated))
        W5 == nvs_commit(W4)
    IN IF W1.ret # ESP_OK THEN W1
       ELSE IF W2.ret # ESP_OK THEN W2
       ELSE IF W3.ret # ESP_OK THEN W3
       ELSE IF W4.ret # ESP_OK THEN W4
       ELSE W5

\* One field of state_restore_from_nvs: read the key, store it when found.
\* The result has ret = ESP_OK when the function goes on to the next field.
RestoreField(W, key, store(_, _)) ==
    LET W1 == nvs_get_u8(W, key)
    IN IF W1.ret = ESP_OK THEN store(W1, W1.val)
       ELSE IF W1.ret # ESP_ERR_NVS_NOT_FOUND THEN W1
       ELSE Ret(W1, ESP_OK)

state_restore_from_nvs(W) ==
    IF ~W.state_ctx.nvs_opened THEN Ret(W, ESP_ERR_INVALID_STATE)
    ELSE
    LET SetMode(X, v) == [X EXCEPT !.state_ctx.state.mode = v]
        SetHandle(X, v) == [X EXCEPT !.state_ctx.state.handle_pos = v]
        SetGap(X, v) == [X EXCEPT !.state_ctx.state.gap_percentage = v]
        SetCal(X, v) == [X EXCEPT !.state_ctx.state.calibrated = (v = 1)]
        W1 == RestoreField(W, NVS_KEY_MODE, SetMode)
        W2 == RestoreField(W1, NVS_KEY_HANDLE_POS, SetHandle)
        W3 == RestoreField(W2, NVS_KEY_GAP_PERCENTAGE, SetGap)
        W4 == RestoreField(W3, NVS_KEY_CALIBRATED, SetCal)
    IN IF W1.ret # ESP_OK THEN W1
       ELSE IF W2.ret # ESP_OK THEN W2
       ELSE IF W3.ret # ESP_OK THEN W3
       ELSE W4

\* Faulty variant: a failed save puts the default state back
SaveIfConfigured_UndoesOnFailure(W) ==
    IF W.state_ctx.config.save_to_nvs /\ W.state_ctx.nvs_opened
    THEN LET R == state_save_to_nvs(W)
         IN IF R.ret = ESP_OK THEN R
            ELSE [R EXCEPT !.state_ctx.state = DefaultWindowState]
    ELSE W

SaveIfConfigured(W) ==
    IF W.state_ctx.config.save_to_nvs /\ W.state_ctx.nvs_opened
    THEN state_save_to_nvs(W) ELSE W

----------------------------------------------------------------------------
(* state_management.c: public operations *)

CanonicalHandle(mode) ==
    CASE mode = WINDOW_MODE_CLOSED -> HANDLE_POSITION_CLOSED
      [] mode = WINDOW_MODE_OPEN -> HANDLE_POSITION_OPEN
      [] mode = WINDOW_MODE_VENTILATE -> HANDLE_POSITION_VENTILATE

\* Faulty variant: the ventilation gap is left shut
CanonicalGap_VentilateShut(mode) ==
    CASE mode = WINDOW_MODE_CLOSED -> 0
      [] mode = WINDOW_MODE_OPEN -> OPEN_GAP_PERCENTAGE
      [] mode = WINDOW_MODE_VENTILATE -> 0

CanonicalGap(mode) ==
    CASE mode = WINDOW_MODE_CLOSED -> 0
      [] mode = WINDOW_MODE_OPEN -> OPEN_GAP_PERCENTAGE
      [] mode = WINDOW_MODE_VENTILATE -> VENTILATE_GAP_PERCENTAGE

state_init(W, config) ==
    IF W.state_ctx.initialized THEN Ret(W, ESP_OK)
    ELSE
    LET W1 == [W EXCEPT !.state_ctx.config = config,
                        !.state_ctx.state = DefaultWindowState]
        W2 == IF W1.state_ctx.config.save_to_nvs
              THEN LET O == state_open_nvs(W1)
                   IN IF O.ret # ESP_OK
                      THEN [O EXCEPT !.state_ctx.config.save_to_nvs = FALSE]
                      ELSE O
              ELSE W1
        W3 == IF W2.state_ctx.config.restore_on_boot
                 /\ W2.state_ctx.config.save_to_nvs /\ W2.state_ctx.nvs_opened
              THEN state_restore_from_nvs(W2)
              ELSE W2
    IN [W3 EXCEPT !.state_ctx.initialized = TRUE,
                  !.state_ctx.last_save_time = W.now,
                  !.ret = ESP_OK]

\* state_set_window_mode from the motion on: the part after the no-change check
SetWindowModeCommit(W, mode) ==
    LET custom == (mode = WINDOW_MODE_CUSTOM)
        new_handle_pos == IF custom THEN W.state_ctx.state.handle_pos
                          ELSE CanonicalHandle(mode)
        new_gap_percentage == IF custom THEN W.state_ctx.state.gap_percentage
                              ELSE CanonicalGap(mode)
        W1 == servo_set_handle_position(W, new_handle_pos)
        W2 == IF ~custom THEN servo_set_gap_percentage(W1, new_gap_percentage)
              ELSE W1
        W3 == state_update_last_action_time(
                [W2 EXCEPT !.state_ctx.state.mode = mode,
                           !.state_ctx.state.handle_pos = new_handle_pos,
                           !.state_ctx.state.gap_percentage = new_gap_percentage,
                           !.state_ctx.state.in_motion = TRUE])
        W4 == zigbee_device_report_state(W3, mode, W3.state_ctx.state.gap_percentage)
        W5 == zigbee_device_send_alert(W4, ZIGBEE_ALERT_MODE_CHANGED, mode % 256)
        W6 == SaveIfConfigured(W5)
    IN IF W1.ret # ESP_OK THEN W1
       ELSE IF W2.ret # ESP_OK THEN W2
       ELSE Ret(W6, ESP_OK)

\* Faulty variant: the custom mode has no case in the switch
SupportedMode_WithoutCustom(mode) ==
    mode \in {WINDOW_MODE_CLOSED, WINDOW_MODE_OPEN, WINDOW_MODE_VENTILATE}

\* The modes the switch of state_set_window_mode has a case for
SupportedMode(mode) ==
    mode \in {WINDOW_MODE_CLOSED, WINDOW_MODE_OPEN, WINDOW_MODE_VENTILATE,
              WINDOW_MODE_CUSTOM}

\* Faulty variant: the check for an unchanged mode is missing
ModeUnchanged_NotChecked(W, mode) == FALSE

\* state_set_window_mode: the early return when the mode is the current one
ModeUnchanged(W, mode) == mode = W.state_ctx.state.mode

state_set_window_mode(W, mode) ==
    IF ~W.state_ctx.initialized THEN Ret(W, ESP_ERR_INVALID_STATE)
    ELSE IF ~SupportedMode(mode) THEN Ret(W, ESP_ERR_INVALID_ARG)
    ELSE IF ModeUnchanged(W, mode) THEN Ret(W, ESP_OK)
    ELSE SetWindowModeCommit(W, mode)

ModeOfHandle(position) ==
    CASE position = HANDLE_POSITION_CLOSED -> WINDOW_MODE_CLOSED
      [] position = HANDLE_POSITION_OPEN -> WINDOW_MODE_OPEN
      [] position = HANDLE_POSITION_VENTILATE -> WINDOW_MODE_VENTILATE
      [] OTHER -> WINDOW_MODE_CUSTOM

state_set_handle_position(W, position) ==
    IF ~W.state_ctx.initialized THEN Ret(W, ESP_ERR_INVALID_STATE)
    ELSE IF position # HANDLE_POSITION_CLOSED /\ position # HANDLE_POSITION_OPEN
            /\ position # HANDLE_POSITION_VENTILATE
         THEN Ret(W, ESP_ERR_INVALID_ARG)
    ELSE IF position = W.state_ctx.state.handle_pos THEN Ret(W, ESP_OK)
    ELSE
    LET W1 == servo_set_handle_position(W, position)
        new_mode == ModeOfHandle(position)
        W2 == state_update_last_action_time(
                [W1 EXCEPT !.state_ctx.state.handle_pos = position,
                           !.state_ctx.state.mode = new_mode,
                           !.state_ctx.state.in_motion = TRUE])
        W3 == zigbee_device_report_state(W2, new_mode, W2.state_ctx.state.gap_percentage)
        W4 == SaveIfConfigured(W3)
    IN IF W1.ret # ESP_OK THEN W1 ELSE Ret(W4, ESP_OK)

\* The test of state_set_gap_percentage that forces the Custom mode
GapBreaksPairing(handle_pos, percentage) ==
    \/ (handle_pos = HANDLE_POSITION_OPEN /\ percentage # OPEN_GAP_PERCENTAGE)
    \/ (handle_pos = HANDLE_POSITION_VENTILATE /\ percentage # VENTILATE_GAP_PERCENTAGE)
    \/ (handle_pos = HANDLE_POSITION_CLOSED /\ percentage # 0)

state_set_gap_percentage(W, percentage) ==
    IF ~W.state_ctx.initialized THEN Ret(W, ESP_ERR_INVALID_STATE)
    ELSE IF percentage > 100 THEN Ret(W, ESP_ERR_INVALID_ARG)
    ELSE IF percentage = W.state_ctx.state.gap_percentage THEN Ret(W, ESP_OK)
    ELSE
    LET W1 == servo_set_gap_percentage(W, percentage)
        W2 == IF GapBreaksPairing(W1.state_ctx.state.handle_pos, percentage)
              THEN [W1 EXCEPT !.state_ctx.state.mode = WINDOW_MODE_CUSTOM]
              ELSE W1
        W3 == state_update_last_action_time(
                [W2 EXCEPT !.state_ctx.state.gap_percentage = percentage,
                           !.state_ctx.state.in_motion = TRUE])
        W4 == zigbee_device_report_state(W3, W3.state_ctx.state.mode, percentage)
        W5 == SaveIfConfigured(W4)
    IN IF W1.ret # ESP_OK THEN W1 ELSE Ret(W5, ESP_OK)

\* Faulty variant: the state is returned as it is stored
state_get_window_state_NoRefresh(W) == Ret(W, ESP_OK)

\* The returned window_state_t is the state_ctx.state of the resulting world
state_get_window_state(W) ==
    [W EXCEPT !.state_ctx.state.handle_pos = servo_get_handle_position(W),
              !.state_ctx.state.gap_percentage = servo_get_gap_percentage(W),
              !.ret = ESP_OK]

state_save(W) ==
    IF ~W.state_ctx.initialized THEN Ret(W, ESP_ERR_INVALID_STATE)
    ELSE IF ~W.state_ctx.config.save_to_nvs THEN Ret(W, ESP_OK)
    ELSE LET W1 == IF ~W.state_ctx.nvs_opened THEN state_open_nvs(W)
                   ELSE Ret(W, ESP_OK)
         IN IF W1.ret # ESP_OK THEN W1 ELSE state_save_to_nvs(W1)

\* Faulty variant: the record is loaded, the actuators are not commanded
state_restore_LoadsOnly(W) ==
    IF ~W.state_ctx.initialized THEN Ret(W, ESP_ERR_INVALID_STATE)
    ELSE IF ~W.state_ctx.config.save_to_nvs THEN Ret(W, ESP_ERR_INVALID_STATE)
    ELSE
    LET W1 == IF ~W.state_ctx.nvs_opened THEN state_open_nvs(W) ELSE Ret(W, ESP_OK)
        W2 == state_restore_from_nvs(W1)
        W5 == zigbee_device_report_state(W2, W2.state_ctx.state.mode,
                                         W2.state_ctx.state.gap_percentage)
    IN IF W1.ret # ESP_OK THEN W1
       ELSE IF W2.ret # ESP_OK THEN W2
       ELSE Ret(W5, ESP_OK)

state_restore(W) ==
    IF ~W.state_ctx.initialized THEN Ret(W, ESP_ERR_INVALID_STATE)
    ELSE IF ~W.state_ctx.config.save_to_nvs THEN Ret(W, ESP_ERR_INVALID_STATE)
    ELSE
    LET W1 == IF ~W.state_ctx.nvs_opened THEN state_open_nvs(W) ELSE Ret(W, ESP_OK)
        W2 == state_restore_from_nvs(W1)
        W3 == servo_set_handle_position(W2, W2.state_ctx.state.handle_pos)
        W4 == servo_set_gap_percentage(W3, W3.state_ctx.state.gap_percentage)
        W5 == zigbee_device_report_state(W4, W4.state_ctx.state.mode,
                                         W4.state_ctx.state.gap_percentage)
    IN IF W1.ret # ESP_OK THEN W1
       ELSE IF W2.ret # ESP_OK THEN W2
       ELSE IF W3.ret # ESP_OK THEN W3
       ELSE IF W4.ret # ESP_OK THEN W4
       ELSE Ret(W5, ESP_OK)

\* Faulty variant: the stored record is left in place
FactoryResetErase_Skipped(W) == Ret(W, ESP_OK)

\* state_factory_reset: erasing the namespace when it is open
FactoryResetErase(W) ==
    IF ~W.state_ctx.nvs_opened THEN Ret(W, ESP_OK)
    ELSE LET E == nvs_erase_all(W)
         IN IF E.ret # ESP_OK THEN E ELSE nvs_commit(E)

state_factory_reset(W) ==
    IF ~W.state_ctx.initialized THEN Ret(W, ESP_ERR_INVALID_STATE)
    ELSE
    LET W1 == state_update_last_action_time(
                [W EXCEPT !.state_ctx.state.mode = WINDOW_MODE_CLOSED,
                          !.state_ctx.state.handle_pos = HANDLE_POSITION_CLOSED,
                          !.state_ctx.state.gap_percentage = 0,
                          !.state_ctx.state.calibrated = FALSE,
                          !.state_ctx.state.in_motion = FALSE])
        W2 == servo_set_handle_position(W1, HANDLE_POSITION_CLOSED)
        W3 == servo_set_gap_percentage(W2, 0)
        W4 == FactoryResetErase(W3)
        W5 == zigbee_device_report_state(W4, WINDOW_MODE_CLOSED, 0)
    IN IF W2.ret # ESP_OK THEN W2
       ELSE IF W3.ret # ESP_OK THEN W3
       ELSE IF W4.ret # ESP_OK THEN W4
       ELSE Ret(W5, ESP_OK)

\* Faulty variant: the time of the automatic save is not written down
state_task_handler_KeepsSaveTime(W) ==
    IF ~W.state_ctx.initialized THEN Ret(W, ESP_ERR_INVALID_STATE)
    ELSE
    LET current_time == W.now
        W1 == IF W.state_ctx.config.save_to_nvs /\ W.state_ctx.nvs_opened
                 /\ U64Sub(current_time, W.state_ctx.last_save_time)
                        >= TimeUnits(W.state_ctx.config.save_interval_ms)
              THEN state_save_to_nvs(W)
              ELSE W
        W2 == IF W1.state_ctx.state.in_motion
                 /\ U64Sub(current_time, W1.state_ctx.state.last_action_time)
                        >= TimeUnits(MOTION_TIMEOUT_MS)
              THEN [W1 EXCEPT !.state_ctx.state.in_motion = FALSE]
              ELSE W1
    IN Ret(W2, ESP_OK)

\* Faulty variant: the motion flag is never cleared
state_task_handler_NeverClears(W) ==
    IF ~W.state_ctx.initialized THEN Ret(W, ESP_ERR_INVALID_STATE)
    ELSE
    LET current_time == W.now
    IN IF W.state_ctx.config.save_to_nvs /\ W.state_ctx.nvs_opened
          /\ U64Sub(current_time, W.state_ctx.last_save_time)
                 >= TimeUnits(W.state_ctx.config.save_interval_ms)
       THEN Ret([state_save_to_nvs(W) EXCEPT !.state_ctx.last_save_time = current_time],
                ESP_OK)
       ELSE Ret(W, ESP_OK)

state_task_handler(W) ==
    IF ~W.state_ctx.initialized THEN Ret(W, ESP_ERR_INVALID_STATE)
    ELSE
    LET current_time == W.now
        W1 == IF W.state_ctx.config.save_to_nvs /\ W.state_ctx.nvs_opened
                 /\ U64Sub(current_time, W.state_ctx.last_save_time)
                        >= TimeUnits(W.state_ctx.config.save_interval_ms)
              THEN [state_save_to_nvs(W) EXCEPT !.state_ctx.last_save_time = current_time]
              ELSE W
        W2 == IF W1.state_ctx.state.in_motion
                 /\ U64Sub(current_time, W1.state_ctx.state.last_action_time)
                        >= TimeUnits(MOTION_TIMEOUT_MS)
              THEN [W1 EXCEPT !.state_ctx.state.in_motion = FALSE]
              ELSE W1
    IN Ret(W2, ESP_OK)

----------------------------------------------------------------------------
(* main.c *)

zigbee_command_handler(W, cmd, data) ==
    IF Len(data) < 2 THEN W
    ELSE
    LET mode == data[1]
        percentage == data[2]
        W1 == state_set_window_mode(W, mode)
        W2 == IF mode = WINDOW_MODE_OPEN \/ mode = WINDOW_MODE_CUSTOM
              THEN state_set_gap_percentage(W1, percentage)
              ELSE W1
    IN IF W1.ret # ESP_OK THEN W1
       ELSE IF W2.ret # ESP_OK THEN W2
       ELSE zigbee_device_report_state(W2, mode, percentage)

\* One iteration of the loop of state_task
state_task(W) ==
    LET W1 == state_task_handler(W)
    IN IF servo_check_resistance(W1, SERVO_TYPE_HANDLE)
       THEN zigbee_device_send_alert(W1, ZIGBEE_ALERT_STUCK, 0)
       ELSE W1

----------------------------------------------------------------------------
(* ota_update.c.  Its functions are operators on a world of their own: the  *)
(* context, the clock, and W.found, whether a check of this call found a    *)
(* new version.  A firmware version is <<major, minor, patch>>, the empty   *)
(* new_version is <<>>.  The states of ota_state_t stand for themselves.    *)

OTA_STATE_IDLE == "OTA_STATE_IDLE"
OTA_STATE_CHECKING == "OTA_STATE_CHECKING"
OTA_STATE_DOWNLOADING == "OTA_STATE_DOWNLOADING"
OTA_STATE_READY_TO_APPLY == "OTA_STATE_READY_TO_APPLY"
OTA_STATE_APPLYING == "OTA_STATE_APPLYING"
OTA_STATE_ERROR == "OTA_STATE_ERROR"

\* main.c: static ota_config
ota_config ==
    [firmware_version |-> <<1, 0, 0>>, check_interval_ms |-> OTA_CHECK_INTERVAL_MS,
     auto_check |-> TRUE, auto_update |-> FALSE]

ota_ctx_reset ==
    [initialized |-> FALSE, config |-> ota_config, state |-> OTA_STATE_IDLE,
     last_check_time |-> 0, download_progress |-> 0,
     new_version_available |-> FALSE, new_version |-> <<>>,
     update_task_running |-> FALSE]

OtaBootWorld == [ota_ctx |-> ota_ctx_reset, now |-> 0, found |-> FALSE, ret |-> ESP_OK]

ota_reset_state(W) ==
    [W EXCEPT !.ota_ctx.state = OTA_STATE_IDLE,
              !.ota_ctx.download_progress = 0,
              !.ota_ctx.new_version_available = FALSE,
              !.ota_ctx.new_version = <<>>]

ota_init(W, config) ==
    IF W.ota_ctx.initialized THEN Ret(W, ESP_OK)
    ELSE [W EXCEPT !.ota_ctx = [initialized |-> TRUE, config |-> config,
                                state |-> OTA_STATE_IDLE, last_check_time |-> 0,
                                download_progress |-> 0,
                                new_version_available |-> FALSE,
                                new_version |-> <<>>,
                                update_task_running |-> FALSE],
                   !.ret = ESP_OK]

ota_start(W) ==
    IF ~W.ota_ctx.initialized THEN Ret(W, ESP_ERR_INVALID_STATE)
    ELSE IF W.ota_ctx.update_task_running THEN Ret(W, ESP_OK)
    ELSE [W EXCEPT !.ota_ctx.update_task_running = TRUE, !.ret = ESP_OK]

ota_stop(W) ==
    IF ~W.ota_ctx.initialized THEN Ret(W, ESP_ERR_INVALID_STATE)
    ELSE IF ~W.ota_ctx.update_task_running THEN Ret(W, ESP_OK)
    ELSE IF W.ota_ctx.state = OTA_STATE_DOWNLOADING
            \/ W.ota_ctx.state = OTA_STATE_APPLYING
         THEN Ret(W, ESP_ERR_INVALID_STATE)
    ELSE [W EXCEPT !.ota_ctx.update_task_running = FALSE,
                   !.ota_ctx.state = OTA_STATE_IDLE,
                   !.ret = ESP_OK]

\* update_available: what rand() % 5 == 0 gives
ota_check_for_update_internal(W, update_available) ==
    LET v == W.ota_ctx.config.firmware_version
        W1 == IF update_available
              THEN [W EXCEPT !.ota_ctx.new_version = <<v[1], v[2], v[3] + 1>>,
                             !.ota_ctx.new_version_available = TRUE,
                             !.found = TRUE]
              ELSE [W EXCEPT !.ota_ctx.new_version_available = FALSE,
                             !.ota_ctx.new_version = <<>>]
    IN [W1 EXCEPT !.ota_ctx.last_check_time = W.now,
                  !.ota_ctx.state = IF W1.ota_ctx.new_version_available
                                    THEN OTA_STATE_DOWNLOADING ELSE OTA_STATE_IDLE,
                  !.ret = ESP_OK]

ota_check_update(W, update_available) ==
    IF ~W.ota_ctx.initialized THEN Ret(W, ESP_ERR_INVALID_STATE)
    ELSE IF W.ota_ctx.state \in {OTA_STATE_CHECKING, OTA_STATE_DOWNLOADING,
                                 OTA_STATE_APPLYING}
         THEN Ret(W, ESP_ERR_INVALID_STATE)
    ELSE LET W1 == ota_check_for_update_internal(
                      [W EXCEPT !.ota_ctx.state = OTA_STATE_CHECKING], update_available)
         IN IF W1.ret # ESP_OK THEN [W1 EXCEPT !.ota_ctx.state = OTA_STATE_ERROR]
            ELSE Ret(W1, ESP_OK)

ota_download_update_internal(W) ==
    [W EXCEPT !.ota_ctx.download_progress = 100,
              !.ota_ctx.state = OTA_STATE_READY_TO_APPLY,
              !.ret = ESP_OK]

ota_download_update(W) ==
    IF ~W.ota_ctx.initialized THEN Ret(W, ESP_ERR_INVALID_STATE)
    ELSE IF ~W.ota_ctx.new_version_available THEN Ret(W, ESP_ERR_INVALID_STATE)
    ELSE IF W.ota_ctx.state = OTA_STATE_DOWNLOADING
            \/ W.ota_ctx.state = OTA_STATE_APPLYING
         THEN Ret(W, ESP_ERR_INVALID_STATE)
    ELSE LET W1 == ota_download_update_internal(
                      [W EXCEPT !.ota_ctx.state = OTA_STATE_DOWNLOADING,
                                !.ota_ctx.download_progress = 0])
         IN IF W1.ret # ESP_OK THEN [W1 EXCEPT !.ota_ctx.state = OTA_STATE_ERROR]
            ELSE Ret(W1, ESP_OK)

ota_apply_update_internal(W) ==
    Ret(ota_reset_state(
           [W EXCEPT !.ota_ctx.config.firmware_version = W.ota_ctx.new_version]),
        ESP_OK)

ota_apply_update(W) ==
    IF ~W.ota_ctx.initialized THEN Ret(W, ESP_ERR_INVALID_STATE)
    ELSE IF W.ota_ctx.state # OTA_STATE_READY_TO_APPLY THEN Ret(W, ESP_ERR_INVALID_STATE)
    ELSE LET W1 == ota_apply_update_internal(
                      [W EXCEPT !.ota_ctx.state = OTA_STATE_APPLYING])
         IN IF W1.ret # ESP_OK THEN [W1 EXCEPT !.ota_ctx.state = OTA_STATE_ERROR]
            ELSE Ret(W1, ESP_OK)

ota_get_state(W) ==
    IF ~W.ota_ctx.initialized THEN OTA_STATE_IDLE ELSE W.ota_ctx.state

\* One iteration of the loop of ota_task_handler
ota_task_handler(W, update_available) ==
    LET c == W.ota_ctx
        W1 == IF /\ c.config.auto_check
                 /\ c.state = OTA_STATE_IDLE
                 /\ \/ c.last_check_time = 0
                    \/ W.now - c.last_check_time >= TimeUnits(c.config.check_interval_ms)
              THEN ota_check_update(W, update_available)
              ELSE W
    IN CASE W1.ota_ctx.state = OTA_STATE_READY_TO_APPLY ->
               IF W1.ota_ctx.config.auto_update THEN ota_apply_update(W1) ELSE W1
         [] W1.ota_ctx.state = OTA_STATE_ERROR -> ota_reset_state(W1)
         [] OTHER -> W1

----------------------------------------------------------------------------
(* main/power_management.c.  power_state.asleep is set when                 *)
(* esp_deep_sleep_start() has been called.  The tick clock is the clock of  *)
(* the model, kept in 32 bits.  The battery and power source readings of    *)
(* the power task are left out.                                             *)

\* a - b in uint32_t arithmetic
U32Sub(a, b) == (a - b + UINT32_RANGE_UNITS) % UINT32_RANGE_UNITS

\* part_003: power_config of init_device
power_config == [sleep_timeout_ms |-> SLEEP_TIMEOUT_MS, enable_auto_sleep |-> TRUE]

power_state_reset ==
    [config |-> power_config, current_mode |-> POWER_MODE_NORMAL,
     last_activity_time |-> 0, is_initialized |-> FALSE, asleep |-> FALSE]

power_init(P, config, t) ==
    [P EXCEPT !.config = config, !.last_activity_time = ToUint32(t),
              !.is_initialized = TRUE]

power_set_mode(P, mode) ==
    IF ~P.is_initialized THEN P
    ELSE IF mode \notin {POWER_MODE_NORMAL, POWER_MODE_LOW_POWER, POWER_MODE_SLEEP}
         THEN P
    ELSE [P EXCEPT !.current_mode = mode]

power_deep_sleep(P) == [P EXCEPT !.asleep = TRUE]

\* No function of the firmware calls it
power_reset_sleep_timer(P, t) == [P EXCEPT !.last_activity_time = ToUint32(t)]

\* One iteration of the loop of power_task_handler at tick time t
power_task_handler(P, t) ==
    LET current_time == ToUint32(t)
        inactivity_time == U32Sub(current_time, P.last_activity_time)
    IN IF P.config.enable_auto_sleep
          /\ inactivity_time >= TimeUnits(P.config.sleep_timeout_ms)
       THEN power_deep_sleep(power_set_mode(P, POWER_MODE_SLEEP))
       ELSE P

\* The initialisation sequence of app_main, up to the start of the modules
app_main_init(W) ==
    zigbee_device_init(state_init(servo_init(W), state_config))

----------------------------------------------------------------------------
(* main/servo_control.c: the motion controller with the current sensor.     *)
(* Its functions are operators on a world record of their own; W.trip is    *)
(* the number of the sensor reading of this call that is above the          *)
(* threshold (0: none), W.checks the number of readings taken so far.       *)
(* The world also logs the angles commanded: W.order the servos in the      *)
(* order they were first commanded, W.lastcmd the last <<servo, angle>>,    *)
(* W.hitcmd the one that preceded the first sensor check that returned      *)
(* true, W.after_hit the number of angles commanded after that check;       *)
(* W.attempts counts the calls of zigbee_send_alert, W.alerts holds the     *)
(* alerts it handed to the ZigBee library.                                  *)

\* main/state_management.c: the static initialiser of current_state (the
\* fields that state_save writes and that hold a mode, a gap or a flag)
device_state_t_reset ==
    [window_mode |-> WINDOW_MODE_CLOSED, gap_percentage |-> 0, calibrated |-> FALSE]

DeviceNvsKeys == {NVS_KEY_WINDOW_MODE, NVS_KEY_GAP_PERCENTAGE, NVS_KEY_CALIBRATED}

EmptyDeviceNvs == [k \in DeviceNvsKeys |-> NotFound]

MotionWorld(trip) ==
    [handle_servo |-> handle_servo, gap_servo |-> gap_servo,
     current_window_mode |-> current_window_mode,
     current_gap_percentage |-> current_gap_percentage,
     resistance_detected |-> resistance_detected,
     current_state |-> current_state, device |-> device,
     trip |-> trip, checks |-> 0, hit |-> FALSE, tripped |-> FALSE,
     order |-> <<>>, lastcmd |-> <<>>, hitcmd |-> <<>>, after_hit |-> 0,
     attempts |-> 0, alerts |-> <<>>, sent |-> <<>>, ret |-> ESP_OK]

servo_t_reset == [current_angle |-> 0, target_angle |-> 0, is_enabled |-> FALSE]

ClampAngle(angle) ==
    IF angle < 0 THEN 0 ELSE IF angle > SERVO_MAX_ANGLE THEN SERVO_MAX_ANGLE ELSE angle

\* Faulty variant: the angle is set whether or not the servo is enabled
set_servo_angle_Unguarded(W, servo, angle) ==
    Ret([W EXCEPT ![servo].current_angle = ClampAngle(angle),
                  !.order = Append(@, servo),
                  !.lastcmd = <<servo, ClampAngle(angle)>>], ESP_OK)

\* servo names the servo_t the C code passes by pointer
set_servo_angle(W, servo, angle) ==
    IF ~W[servo].is_enabled THEN Ret(W, ESP_ERR_INVALID_STATE)
    ELSE Ret([W EXCEPT ![servo].current_angle = ClampAngle(angle),
                       !.order = IF @ # <<>> /\ @[Len(@)] = servo THEN @
                                 ELSE Append(@, servo),
                       !.lastcmd = <<servo, ClampAngle(angle)>>,
                       !.after_hit = IF W.tripped THEN @ + 1 ELSE @], ESP_OK)

setup_servo(W, servo) ==
    LET W1 == [W EXCEPT ![servo] = servo_t_reset]
        W2 == set_servo_angle(W1, servo, 0)
    IN Ret([W2 EXCEPT ![servo].is_enabled = TRUE], ESP_OK)

mc_servo_init(W) ==
    LET W1 == setup_servo(W, "handle_servo")
        W2 == setup_servo(W1, "gap_servo")
    IN Ret([W2 EXCEPT !.current_window_mode = WINDOW_MODE_CLOSED,
                      !.current_gap_percentage = 0,
                      !.resistance_detected = FALSE], ESP_OK)

read_current_sensor(W) ==
    IF W.checks + 1 = W.trip THEN ADC_FULL_SCALE ELSE 0

\* W.hit is the bool the function returns
mc_servo_check_resistance(W) ==
    LET current_value == read_current_sensor(W)
        W1 == [W EXCEPT !.checks = @ + 1]
        Hit(X) == [X EXCEPT !.hit = TRUE, !.tripped = TRUE,
                            !.hitcmd = IF X.tripped THEN @ ELSE X.lastcmd]
    IN IF W1.resistance_detected
       THEN Hit(W1)
       ELSE IF current_value > DEFAULT_RESISTANCE_THRESHOLD
       THEN Hit([W1 EXCEPT !.resistance_detected = TRUE])
       ELSE [W1 EXCEPT !.resistance_detected = FALSE, !.hit = FALSE]

\* Iteration i (1, 2, ...) of a for loop of move_servo_smooth that starts at
\* the angle current and goes by step (+1 or -1): the iterations before it
\* found no resistance, so each of them set one angle and took one reading.
LoopIteration(W, servo, current, step, i) ==
    LET W1 == set_servo_angle([W EXCEPT !.checks = @ + (i - 1)], servo,
                              current + step * (i - 1))
    IN IF W1.ret # ESP_OK THEN W1 ELSE mc_servo_check_resistance(W1)

\* The for loop of move_servo_smooth: it ends at the first iteration that
\* fails or finds resistance, or after the iteration at target_angle.  An
\* iteration after the first one can stop only on a reading above the
\* threshold: the loop changes neither is_enabled nor, while no check
\* returns true, resistance_detected.
MoveLoop(W, servo, current, target_angle, step) ==
    LET n == (target_angle - current) * step + 1
        Stops(i) == LET R == LoopIteration(W, servo, current, step, i)
                    IN R.ret # ESP_OK \/ R.hit
        ReadsHigh(i) == read_current_sensor([checks |-> W.checks + (i - 1),
                                             trip |-> W.trip])
                            > DEFAULT_RESISTANCE_THRESHOLD
        stopping == {i \in {k \in 1 .. n : k = 1 \/ ReadsHigh(k)} : Stops(i)}
    IN IF stopping = {}
       THEN Ret(LoopIteration(W, servo, current, step, n), ESP_OK)
       ELSE LET i == CHOOSE k \in stopping : \A j \in stopping : k <= j
                R == LoopIteration(W, servo, current, step, i)
            IN IF R.ret # ESP_OK THEN R ELSE Ret(R, ESP_ERR_TIMEOUT)

\* The world X a call leaves behind, computed once, and what follows it
Then(X, F(_)) == CHOOSE R \in {F(w) : w \in {X}} : TRUE

\* move_servo_smooth from its first statement on
MoveFrom(W, servo, target_angle) ==
    IF ~W[servo].is_enabled THEN Ret(W, ESP_ERR_INVALID_STATE)
    ELSE
    LET target == ClampAngle(target_angle)
        current == W[servo].current_angle
        R == IF current < target THEN MoveLoop(W, servo, current, target, 1)
             ELSE IF current > target THEN MoveLoop(W, servo, current, target, -1)
             ELSE Ret(W, ESP_OK)
    IN IF R.ret # ESP_OK THEN R
       ELSE [R EXCEPT ![servo].target_angle = target]

\* Faulty variant: the angle is commanded once even when the servo is at it
move_servo_smooth_StepsAtTarget(W, servo, target_angle) ==
    IF W[servo].is_enabled /\ W[servo].current_angle = ClampAngle(target_angle)
    THEN Then(W, LAMBDA w : MoveLoop(w, servo, w[servo].current_angle,
                                     ClampAngle(target_angle), 1))
    ELSE Then(W, LAMBDA w : MoveFrom(w, servo, target_angle))

\* Faulty variant: after resistance the target angle is still commanded
move_servo_smooth_Overshoots(W, servo, target_angle) ==
    Then(MoveFrom(W, servo, target_angle),
         LAMBDA R : IF R.ret # ESP_ERR_TIMEOUT THEN R
                    ELSE Ret(set_servo_angle(R, servo, target_angle), ESP_ERR_TIMEOUT))

move_servo_smooth(W, servo, target_angle) ==
    Then(W, LAMBDA w : MoveFrom(w, servo, target_angle))

\* Faulty variant: Closed moves the gap servo whatever the handle move returned
servo_set_window_mode_GapRegardless(W, mode) ==
    IF mode \notin {WINDOW_MODE_CLOSED, WINDOW_MODE_OPEN, WINDOW_MODE_VENT}
    THEN Ret(W, ESP_ERR_INVALID_ARG)
    ELSE
    LET target_angle == CASE mode = WINDOW_MODE_CLOSED -> ANGLE_CLOSED
                          [] mode = WINDOW_MODE_OPEN -> ANGLE_OPEN
                          [] mode = WINDOW_MODE_VENT -> ANGLE_VENT
    IN Then(move_servo_smooth(W, "handle_servo", target_angle),
            LAMBDA W1 :
                IF mode = WINDOW_MODE_CLOSED
                THEN Ret(move_servo_smooth(
                            [W1 EXCEPT !.current_window_mode =
                                           IF W1.ret = ESP_OK THEN mode ELSE @,
                                       !.current_gap_percentage =
                                           IF W1.ret = ESP_OK THEN 0 ELSE @],
                            "gap_servo", 0), W1.ret)
                ELSE IF W1.ret # ESP_OK THEN W1
                ELSE Ret([W1 EXCEPT !.current_window_mode = mode], ESP_OK))

servo_set_window_mode(W, mode) ==
    IF mode \notin {WINDOW_MODE_CLOSED, WINDOW_MODE_OPEN, WINDOW_MODE_VENT}
    THEN Ret(W, ESP_ERR_INVALID_ARG)
    ELSE
    LET target_angle == CASE mode = WINDOW_MODE_CLOSED -> ANGLE_CLOSED
                          [] mode = WINDOW_MODE_OPEN -> ANGLE_OPEN
                          [] mode = WINDOW_MODE_VENT -> ANGLE_VENT
    IN Then(move_servo_smooth(W, "handle_servo", target_angle),
            LAMBDA W1 :
                IF W1.ret # ESP_OK THEN W1
                ELSE IF mode = WINDOW_MODE_CLOSED
                THEN Ret(move_servo_smooth(
                            [W1 EXCEPT !.current_window_mode = mode,
                                       !.current_gap_percentage = 0],
                            "gap_servo", 0), ESP_OK)
                ELSE Ret([W1 EXCEPT !.current_window_mode = mode], ESP_OK))

\* Faulty variant: the gap is moved in every window mode
servo_set_gap_AnyMode(W, percentage) ==
    LET clamped == IF percentage > 100 THEN 100 ELSE percentage
        target_angle == (clamped * GAP_ANGLE_RANGE) \div 100
    IN Then(move_servo_smooth(W, "gap_servo", target_angle),
            LAMBDA W1 :
                IF W1.ret # ESP_OK THEN W1
                ELSE [W1 EXCEPT !.current_gap_percentage = clamped])

servo_set_gap(W, percentage) ==
    IF W.current_window_mode # WINDOW_MODE_OPEN THEN Ret(W, ESP_ERR_INVALID_STATE)
    ELSE
    LET clamped == IF percentage > 100 THEN 100 ELSE percentage
        target_angle == (clamped * GAP_ANGLE_RANGE) \div 100
    IN Then(move_servo_smooth(W, "gap_servo", target_angle),
            LAMBDA W1 :
                IF W1.ret # ESP_OK THEN W1
                ELSE [W1 EXCEPT !.current_gap_percentage = clamped])

servo_simulate_resistance(W, enable) ==
    [W EXCEPT !.resistance_detected = enable]

servo_disable(W) ==
    Ret([W EXCEPT !.handle_servo.is_enabled = FALSE,
                  !.gap_servo.is_enabled = FALSE], ESP_OK)

\* The moves of servo_calibrate, each under ESP_RETURN_ON_ERROR
RECURSIVE CalibrateMoves(_, _)
CalibrateMoves(W, moves) ==
    IF moves = <<>> THEN Ret(W, ESP_OK)
    ELSE Then(move_servo_smooth(W, moves[1][1], moves[1][2]),
              LAMBDA W1 : IF W1.ret # ESP_OK THEN W1
                          ELSE CalibrateMoves(W1, Tail(moves)))

servo_calibrate(W) ==
    Then(CalibrateMoves([W EXCEPT !.handle_servo.is_enabled = TRUE,
                                  !.gap_servo.is_enabled = TRUE],
                        << <<"handle_servo", 0>>, <<"handle_servo", 180>>,
                           <<"handle_servo", 0>>, <<"gap_servo", 0>>,
                           <<"gap_servo", 90>>, <<"gap_servo", 0>> >>),
         LAMBDA W1 :
            IF W1.ret # ESP_OK THEN W1
            ELSE Ret([W1 EXCEPT !.current_window_mode = WINDOW_MODE_CLOSED,
                                !.current_gap_percentage = 0], ESP_OK))

----------------------------------------------------------------------------
(* main/zigbee_handler.c and the main task of the same firmware *)

zigbee_send_alert(W0, alert_type, value) ==
    LET W == [W0 EXCEPT !.attempts = @ + 1]
    IN IF W.current_state # ZIGBEE_STATE_CONNECTED THEN Ret(W, ESP_ERR_INVALID_STATE)
       ELSE IF alert_type # ZIGBEE_ALERT_RESISTANCE THEN Ret(W, ESP_ERR_INVALID_ARG)
       ELSE Ret([W EXCEPT !.alerts = Append(@, <<ESP_ZIGBEE_ALERT_STUCK, value>>)], ESP_OK)

\* zigbee_send_window_mode and zigbee_send_gap_position: the attribute sent
ZigbeeSendAttribute(W, attribute, value) ==
    IF W.current_state # ZIGBEE_STATE_CONNECTED THEN Ret(W, ESP_ERR_INVALID_STATE)
    ELSE Ret([W EXCEPT !.sent = Append(@, <<attribute, value>>)], ESP_OK)

\* A command applied: the confirmation is sent, its result is not looked at
Confirm(W, attribute, value) ==
    Then(W, LAMBDA W1 :
        IF W1.ret # ESP_OK THEN W1
        ELSE Ret(ZigbeeSendAttribute(W1, attribute, value), ESP_OK))

zigbee_on_command(W, cmd, data) ==
    IF cmd = ESP_ZIGBEE_CMD_SET_MODE /\ Len(data) >= 1
    THEN Confirm(servo_set_window_mode(W, data[1]), "window_mode", data[1])
    ELSE IF cmd = ESP_ZIGBEE_CMD_SET_POSITION /\ Len(data) >= 1
    THEN Confirm(servo_set_gap(W, data[1]), "gap_position", data[1])
    ELSE IF cmd = ESP_ZIGBEE_CMD_CALIBRATE THEN servo_calibrate(W)
    ELSE W

handle_window_events(W) ==
    Then(mc_servo_check_resistance(W),
         LAMBDA W1 :
            IF ~W1.hit THEN Ret(W1, ESP_OK)
            ELSE Then(servo_disable(W1),
                      LAMBDA W2 :
                         IF W2.current_state = ZIGBEE_STATE_CONNECTED
                         THEN Ret(zigbee_send_alert(W2, ZIGBEE_ALERT_RESISTANCE, 1), ESP_OK)
                         ELSE Ret(W2, ESP_OK)))

----------------------------------------------------------------------------
(* main/state_management.c, the module that persists the device state of   *)
(* the same firmware; W.device.nvs is the record in its NVS namespace.      *)

mc_state_save(W) ==
    LET cs == W.device.current_state
    IN Ret([W EXCEPT !.device.nvs =
                [k \in DeviceNvsKeys |->
                    CASE k = NVS_KEY_WINDOW_MODE -> cs.window_mode
                      [] k = NVS_KEY_GAP_PERCENTAGE -> cs.gap_percentage
                      [] k = NVS_KEY_CALIBRATED -> BoolToU8(cs.calibrated)]],
           ESP_OK)

mc_state_load(W) ==
    LET rec == W.device.nvs
        cs == W.device.current_state
    IN Ret([W EXCEPT !.device.current_state =
                [window_mode |->
                    IF rec[NVS_KEY_WINDOW_MODE] = NotFound THEN cs.window_mode
                    ELSE IF rec[NVS_KEY_WINDOW_MODE] <= WINDOW_MODE_VENT
                         THEN rec[NVS_KEY_WINDOW_MODE] ELSE WINDOW_MODE_CLOSED,
                 gap_percentage |->
                    IF rec[NVS_KEY_GAP_PERCENTAGE] = NotFound THEN cs.gap_percentage
                    ELSE IF rec[NVS_KEY_GAP_PERCENTAGE] <= 100
                         THEN rec[NVS_KEY_GAP_PERCENTAGE] ELSE 0,
                 calibrated |->
                    IF rec[NVS_KEY_CALIBRATED] = NotFound THEN cs.calibrated
                    ELSE rec[NVS_KEY_CALIBRATED] = 1]],
           ESP_OK)

state_update_calibration(W, calibrated) ==
    Ret([W EXCEPT !.device.current_state.calibrated = calibrated], ESP_OK)

\* init_device up to the start of ZigBee; a step that fails under
\* ESP_ERROR_CHECK aborts the boot and leaves its error in ret
init_device(W) ==
    Then(mc_servo_init(mc_state_load(W)),
         LAMBDA W1 :
            IF W1.device.current_state.calibrated THEN W1
            ELSE Then(servo_calibrate(W1),
                      LAMBDA W2 : IF W2.ret # ESP_OK THEN W2
                                  ELSE state_update_calibration(W2, TRUE)))

----------------------------------------------------------------------------
(* The state machine of the model *)

NoCall == [op |-> "none", arg |-> <<>>, ret |-> ESP_OK]

\* The calls that are remembered as "the call before the last one"
TrackedOps == {"state_set_window_mode", "state_set_gap_percentage",
               "state_factory_reset"}

CallRecord(op, arg, R) ==
    [op |-> op, arg |-> arg, ret |-> R.ret,
     pre |-> state_ctx.state, at |-> now,
     cmds |-> R.cmds, reports |-> R.reports, alerts |-> R.alerts,
     writes |-> R.writes,
     nvs_failed |-> (R.nvs_fail # 0 /\ R.nvs_calls >= R.nvs_fail)]

NoRoundTrip == [phase |-> 0, saved |-> DefaultWindowState]

\* save() that persisted, then a restart, then restore(): phases 1, 2, 3
RoundTripStep(op, R) ==
    IF op = "state_save" /\ R.ret = ESP_OK /\ R.writes > 0
    THEN [phase |-> 1, saved |-> R.state_ctx.state]
    ELSE IF op = "restart" /\ rt.phase = 1 THEN [rt EXCEPT !.phase = 2]
    ELSE IF op = "state_restore" /\ rt.phase = 2 /\ R.ret = ESP_OK
         THEN [rt EXCEPT !.phase = 3]
    ELSE NoRoundTrip

\* The entry point op(arg) ran and left the world R
Returns(op, arg, R) ==
    /\ state_ctx' = R.state_ctx
    /\ servo_ctx' = R.servo_ctx
    /\ zigbee_ctx' = R.zigbee_ctx
    /\ nvs' = R.nvs
    /\ last' = CallRecord(op, arg, R)
    /\ prev' = IF last.op \in TrackedOps
               THEN [op |-> last.op, arg |-> last.arg, ret |-> last.ret]
               ELSE NoCall
    /\ rt' = RoundTripStep(op, R)
    /\ UNCHANGED <<mcvars, tasks>>

BootWorld ==
    [state_ctx |-> state_ctx_reset, servo_ctx |-> servo_ctx_reset,
     zigbee_ctx |-> zigbee_ctx_reset, nvs |-> EmptyNvs, now |-> 0,
     cmds |-> <<>>, reports |-> <<>>, alerts |-> <<>>, writes |-> 0,
     nvs_calls |-> 0, nvs_fail |-> 0, val |-> 0, ret |-> ESP_OK]

\* main/servo_control.c after servo_init, the link not yet connected
MotionBootWorld ==
    [handle_servo |-> servo_t_reset, gap_servo |-> servo_t_reset,
     current_window_mode |-> WINDOW_MODE_CLOSED, current_gap_percentage |-> 0,
     resistance_detected |-> FALSE, current_state |-> ZIGBEE_STATE_DISCONNECTED,
     device |-> [current_state |-> device_state_t_reset, nvs |-> EmptyDeviceNvs],
     trip |-> 0, checks |-> 0, hit |-> FALSE, tripped |-> FALSE,
     order |-> <<>>, lastcmd |-> <<>>, hitcmd |-> <<>>, after_hit |-> 0,
     attempts |-> 0, alerts |-> <<>>, sent |-> <<>>, ret |-> ESP_OK]

NoMotionCall ==
    [op |-> "none", arg |-> <<>>, ret |-> ESP_OK, tripped |-> FALSE,
     pre |-> [mode |-> WINDOW_MODE_CLOSED, gap |-> 0,
              handle_servo |-> servo_t_reset, gap_servo |-> servo_t_reset],
     alerts |-> <<>>,
     order |-> <<>>, hitcmd |-> <<>>, after_hit |-> 0,
     high |-> FALSE, override |-> FALSE, attempts |-> 0,
     lastcmd |-> <<>>, checks |-> 0]

\* A task of the firmware: pc is where it stands, and while it is inside
\* move_servo_smooth (pc = "move") op(arg) is the motion call it is in, phase
\* the number of the move of that call, servo / angle / target / step the
\* servo_t, the loop variable, the clamped target and the direction of the
\* for loop, passes the number of passes of the loop body made so far, and
\* after the pc the task takes when the call has returned.
TaskAt(pc) ==
    [pc |-> pc, op |-> "none", arg |-> 0, phase |-> 0, servo |-> "none",
     angle |-> 0, target |-> 0, step |-> 0, passes |-> 0, after |-> pc]

\* app_main has created zigbee_task and main_task; neither has run yet
\* (commands counts the commands zigbee_task has received)
TaskInit ==
    tasks = [main_task |-> TaskAt("restore_mode"), zigbee_task |-> TaskAt("idle"),
             commands |-> 0]

MotionInit ==
    LET R == mc_servo_init(MotionBootWorld)
    IN /\ handle_servo = R.handle_servo
       /\ gap_servo = R.gap_servo
       /\ current_window_mode = R.current_window_mode
       /\ current_gap_percentage = R.current_gap_percentage
       /\ resistance_detected = R.resistance_detected
       /\ current_state = R.current_state
       /\ trips = 0
       /\ call = NoMotionCall
       /\ device = init_device(MotionBootWorld).device

Init ==
    LET R == app_main_init(BootWorld)
    IN /\ state_ctx = R.state_ctx
       /\ servo_ctx = R.servo_ctx
       /\ zigbee_ctx = R.zigbee_ctx
       /\ nvs = R.nvs
       /\ now = 0
       /\ last = [op |-> "restart", arg |-> <<>>, ret |-> R.ret,
                  pre |-> DefaultWindowState, at |-> 0,
                  cmds |-> <<>>, reports |-> <<>>, alerts |-> <<>>, writes |-> 0,
                  nvs_failed |-> FALSE]
       /\ prev = NoCall
       /\ rt = NoRoundTrip
       /\ MotionInit
       /\ TaskInit
       /\ zigbee_cmd_queue = <<>>
       /\ ota_ctx = ota_init(OtaBootWorld, ota_config).ota_ctx
       /\ power_state = power_init(power_state_reset, power_config, 0)

SetWindowMode ==
    \E mode \in ModeTags :
        /\ Returns("state_set_window_mode", <<mode>>, state_set_window_mode(World, mode))
        /\ UNCHANGED now

SetHandlePosition ==
    \E position \in HandleAngles :
        /\ Returns("state_set_handle_position", <<position>>,
                   state_set_handle_position(World, position))
        /\ UNCHANGED now

SetGapPercentage ==
    \E percentage \in Percentages :
        /\ Returns("state_set_gap_percentage", <<percentage>>,
                   state_set_gap_percentage(World, percentage))
        /\ UNCHANGED now

GetWindowState ==
    /\ Returns("state_get_window_state", <<>>, state_get_window_state(World))
    /\ UNCHANGED now

Save ==
    /\ Returns("state_save", <<>>, state_save(World))
    /\ UNCHANGED now

Restore ==
    /\ Returns("state_restore", <<>>, state_restore(World))
    /\ UNCHANGED now

FactoryReset ==
    /\ Returns("state_factory_reset", <<>>, state_factory_reset(World))
    /\ UNCHANGED now

StateTask ==
    /\ Returns("state_task", <<>>, state_task(World))
    /\ UNCHANGED now

ZigbeeCommand ==
    \E cmd \in CommandCodes, data \in Payloads :
        /\ Returns("zigbee_command_handler", data, zigbee_command_handler(World, cmd, data))
        /\ UNCHANGED now

\* Power cycle: RAM is reinitialised, the NVS contents stay, the clock restarts
Restart ==
    /\ Returns("restart", <<>>,
               app_main_init([BootWorld EXCEPT !.nvs = nvs]))
    /\ now' = 0

\* Time passes
Advance ==
    /\ now + TimeUnits(ClockStepMs) <= MaxAdvances * TimeUnits(ClockStepMs)
    /\ now' = now + TimeUnits(ClockStepMs)
    /\ UNCHANGED <<state_ctx, servo_ctx, zigbee_ctx, nvs, last, prev, rt>>
    /\ UNCHANGED <<mcvars, tasks>>

Next ==
    \/ SetWindowMode
    \/ SetHandlePosition
    \/ SetGapPercentage
    \/ GetWindowState
    \/ Save
    \/ Restore
    \/ FactoryReset
    \/ StateTask
    \/ ZigbeeCommand
    \/ Restart
    \/ Advance

Spec == Init /\ [][Next]_vars

----------------------------------------------------------------------------
(* The same state machine when one NVS call of an entry point fails: f is   *)
(* the number of the failing nvs_* call of the entry point (0: none fails). *)

FaultSetWindowMode ==
    \E mode \in FaultModes, f \in FaultPoints :
        /\ Returns("state_set_window_mode", <<mode>>,
                   state_set_window_mode(WorldF(f), mode))
        /\ UNCHANGED now

FaultSetHandlePosition ==
    \E position \in FaultHandleAngles, f \in FaultPoints :
        /\ Returns("state_set_handle_position", <<position>>,
                   state_set_handle_position(WorldF(f), position))
        /\ UNCHANGED now

FaultSetGapPercentage ==
    \E percentage \in FaultPercentages, f \in FaultPoints :
        /\ Returns("state_set_gap_percentage", <<percentage>>,
                   state_set_gap_percentage(WorldF(f), percentage))
        /\ UNCHANGED now

FaultRestore ==
    \E f \in FaultPoints :
        /\ Returns("state_restore", <<>>, state_restore(WorldF(f)))
        /\ UNCHANGED now

FaultNext ==
    \/ FaultSetWindowMode
    \/ FaultSetHandlePosition
    \/ FaultSetGapPercentage
    \/ FaultRestore

FaultSpec == Init /\ [][FaultNext]_vars

----------------------------------------------------------------------------
(* The motion flag and the clock: the three operations that start a motion, *)
(* state_task that calls state_task_handler every 100 ms, and the clock in  *)
(* steps of TickStepMs.  The clock of a behaviour stops at TickHorizon, and *)
(* the last operation is issued one motion timeout before it.               *)

TickHorizon == MaxTickAdvances * TimeUnits(TickStepMs)

TickCommandAllowed == now + TimeUnits(MOTION_TIMEOUT_MS) <= TickHorizon

TickSetWindowMode ==
    /\ TickCommandAllowed
    /\ \E mode \in FaultModes :
          Returns("state_set_window_mode", <<mode>>, state_set_window_mode(World, mode))
    /\ UNCHANGED now

TickSetHandlePosition ==
    /\ TickCommandAllowed
    /\ \E position \in FaultHandleAngles :
          Returns("state_set_handle_position", <<position>>,
                  state_set_handle_position(World, position))
    /\ UNCHANGED now

TickSetGapPercentage ==
    /\ TickCommandAllowed
    /\ \E percentage \in FaultPercentages :
          Returns("state_set_gap_percentage", <<percentage>>,
                  state_set_gap_percentage(World, percentage))
    /\ UNCHANGED now

\* One turn of the loop of state_task
TickStateTask ==
    /\ Returns("state_task", <<>>, state_task(World))
    /\ UNCHANGED now

TickAdvance ==
    /\ now + TimeUnits(TickStepMs) <= TickHorizon
    /\ now' = now + TimeUnits(TickStepMs)
    /\ UNCHANGED <<state_ctx, servo_ctx, zigbee_ctx, nvs, last, prev, rt>>
    /\ UNCHANGED <<mcvars, tasks>>

TickNext ==
    \/ TickSetWindowMode
    \/ TickSetHandlePosition
    \/ TickSetGapPercentage
    \/ TickStateTask
    \/ TickAdvance

\* The timer keeps counting and state_task never leaves its loop
TickSpec ==
    /\ Init /\ [][TickNext]_vars
    /\ WF_vars(TickAdvance)
    /\ WF_vars(TickStateTask)

----------------------------------------------------------------------------
(* Two tasks on state_ctx.  app_main creates state_task with priority 5,    *)
(* and the task that runs the command callback has priority 5 as well;      *)
(* state_management.c takes no lock, so the scheduler can switch from one   *)
(* task to the other between any two statements.  Here a set operation runs *)
(* one assignment to state_ctx.state at a time, and state_task makes a turn *)
(* of its loop between any two of them.  tasks.zigbee_task is the task that *)
(* is inside the set operation: todo holds the assignments it has still to  *)
(* make, before and after the WindowState at its entry and the one it is    *)
(* writing.  prev is the last set operation that has changed the state and  *)
(* returned.                                                                *)

RaceOps == {"state_set_window_mode", "state_set_handle_position",
            "state_set_gap_percentage"}

RaceArgs(op) ==
    CASE op = "state_set_window_mode" -> FaultModes
      [] op = "state_set_handle_position" -> FaultHandleAngles
      [] OTHER -> FaultPercentages

RaceCall(W, op, arg) ==
    CASE op = "state_set_window_mode" -> state_set_window_mode(W, arg)
      [] op = "state_set_handle_position" -> state_set_handle_position(W, arg)
      [] OTHER -> state_set_gap_percentage(W, arg)

Assign(field, value) == [field |-> field, value |-> value]

\* The assignments to state_ctx.state of a set operation, in program order;
\* s is the WindowState that the operation read before them
Assignments(op, arg, s) ==
    CASE op = "state_set_window_mode" ->
            <<Assign("mode", arg),
              Assign("handle_pos", IF arg = WINDOW_MODE_CUSTOM THEN s.handle_pos
                                   ELSE CanonicalHandle(arg))>>
            \o (IF arg # WINDOW_MODE_CUSTOM
                THEN <<Assign("gap_percentage", CanonicalGap(arg))>> ELSE <<>>)
            \o <<Assign("in_motion", TRUE), Assign("last_action_time", "now")>>
      [] op = "state_set_handle_position" ->
            <<Assign("handle_pos", arg), Assign("mode", ModeOfHandle(arg)),
              Assign("in_motion", TRUE), Assign("last_action_time", "now")>>
      [] OTHER ->
            (IF GapBreaksPairing(s.handle_pos, arg)
             THEN <<Assign("mode", WINDOW_MODE_CUSTOM)>> ELSE <<>>)
            \o <<Assign("gap_percentage", arg),
                 Assign("in_motion", TRUE), Assign("last_action_time", "now")>>

\* What a set operation does after its assignments: report, alert, save
RaceTail(W, op, arg) ==
    LET s == W.state_ctx.state
    IN CASE op = "state_set_window_mode" ->
               Ret(SaveIfConfigured(
                     zigbee_device_send_alert(
                        zigbee_device_report_state(W, arg, s.gap_percentage),
                        ZIGBEE_ALERT_MODE_CHANGED, arg % 256)), ESP_OK)
         [] op = "state_set_handle_position" ->
               Ret(SaveIfConfigured(
                     zigbee_device_report_state(W, ModeOfHandle(arg), s.gap_percentage)),
                   ESP_OK)
         [] OTHER ->
               Ret(SaveIfConfigured(zigbee_device_report_state(W, s.mode, arg)), ESP_OK)

\* A function of state_management.c ran to its end without a task switch
RaceRan(op, arg, R) ==
    /\ state_ctx' = R.state_ctx
    /\ servo_ctx' = R.servo_ctx
    /\ zigbee_ctx' = R.zigbee_ctx
    /\ nvs' = R.nvs
    /\ last' = CallRecord(op, arg, R)
    /\ UNCHANGED <<now, prev, rt, tasks>>

\* The task enters a set operation: the checks and the servo commands.  An
\* operation that goes on to change the state hands a report to
\* zigbee_device_report_state, and no other one does.
RaceEnter ==
    /\ tasks.zigbee_task.pc = "idle"
    /\ \E op \in RaceOps :
       \E arg \in RaceArgs(op) :
          LET R == RaceCall(World, op, arg)
          IN IF R.reports = <<>>
             THEN RaceRan(op, <<arg>>, R) /\ UNCHANGED mcvars
             ELSE /\ servo_ctx' = R.servo_ctx
                  /\ tasks' = [tasks EXCEPT !.zigbee_task =
                                  [pc |-> "assign", op |-> op, arg |-> arg,
                                   cmds |-> R.cmds,
                                   todo |-> Assignments(op, arg, state_ctx.state),
                                   before |-> state_ctx.state,
                                   after |-> R.state_ctx.state]]
                  /\ UNCHANGED <<state_ctx, zigbee_ctx, nvs, now, last, prev, rt>>
                  /\ UNCHANGED mcvars

\* The next assignment of the operation
RaceAssign ==
    LET T == tasks.zigbee_task
    IN /\ T.pc = "assign"
       /\ T.todo # <<>>
       /\ state_ctx' = [state_ctx EXCEPT !.state[Head(T.todo).field] =
                            IF Head(T.todo).field = "last_action_time"
                            THEN ToUint32(now) ELSE Head(T.todo).value]
       /\ tasks' = [tasks EXCEPT !.zigbee_task.todo = Tail(T.todo)]
       /\ UNCHANGED <<servo_ctx, zigbee_ctx, nvs, now, last, prev, rt>>
       /\ UNCHANGED mcvars

\* The rest of the operation, and its return
RaceReturn ==
    LET T == tasks.zigbee_task
    IN /\ T.pc = "assign"
       /\ T.todo = <<>>
       /\ LET R == RaceTail([World EXCEPT !.cmds = T.cmds], T.op, T.arg)
          IN /\ state_ctx' = R.state_ctx
             /\ zigbee_ctx' = R.zigbee_ctx
             /\ nvs' = R.nvs
             /\ last' = [CallRecord(T.op, <<T.arg>>, R) EXCEPT !.pre = T.before]
             /\ prev' = [op |-> T.op, arg |-> <<T.arg>>, ret |-> R.ret]
       /\ tasks' = [tasks EXCEPT !.zigbee_task = TaskAt("idle")]
       /\ UNCHANGED <<servo_ctx, now, rt>>
       /\ UNCHANGED mcvars

\* One turn of the loop of state_task, wherever the other task stands
RaceStateTask ==
    /\ RaceRan("state_task", <<>>, state_task(World))
    /\ UNCHANGED mcvars

\* Time passes between two set operations (the assignments of one take far
\* less than a unit of the clock): the motion timeout, or the interval of the
\* automatic save
RaceAdvance ==
    /\ tasks.zigbee_task.pc = "idle"
    /\ \/ /\ (now % TimeUnits(SAVE_INTERVAL_MS)) + TimeUnits(MOTION_TIMEOUT_MS)
                 <= MaxRaceTimeouts * TimeUnits(MOTION_TIMEOUT_MS)
          /\ now' = now + TimeUnits(MOTION_TIMEOUT_MS)
       \/ /\ now + TimeUnits(SAVE_INTERVAL_MS)
                 <= MaxRaceIntervals * TimeUnits(SAVE_INTERVAL_MS)
                    + MaxRaceTimeouts * TimeUnits(MOTION_TIMEOUT_MS)
          /\ now' = now + TimeUnits(SAVE_INTERVAL_MS)
    /\ UNCHANGED <<state_ctx, servo_ctx, zigbee_ctx, nvs, last, prev, rt>>
    /\ UNCHANGED <<mcvars, tasks>>

RaceNext ==
    \/ RaceEnter
    \/ RaceAssign
    \/ RaceReturn
    \/ RaceStateTask
    \/ RaceAdvance

RaceSpec == Init /\ [][RaceNext]_vars

----------------------------------------------------------------------------
(* The automatic save.  state_task calls state_task_handler and then sleeps *)
(* for STATE_TASK_PERIOD_MS, so the clock goes on by one period between two *)
(* turns of its loop.  A boot opens NVS or fails to, and with NVS not open  *)
(* state_init switches persistence off.  prev is the last turn of the loop  *)
(* that persisted the state since the boot, prev.arg the clock at that turn. *)

SaveRan(op, arg, R) ==
    /\ state_ctx' = R.state_ctx
    /\ servo_ctx' = R.servo_ctx
    /\ zigbee_ctx' = R.zigbee_ctx
    /\ nvs' = R.nvs
    /\ last' = CallRecord(op, arg, R)
    /\ prev' = IF op = "restart" THEN NoCall
               ELSE IF R.writes > 0 THEN [op |-> op, arg |-> <<now>>, ret |-> R.ret]
               ELSE prev
    /\ UNCHANGED <<rt, tasks>>
    /\ UNCHANGED mcvars

\* Power cycle; f = 1 is the boot at which nvs_open fails
SaveBoot ==
    /\ \E f \in {0, 1} :
          SaveRan("restart", <<f>>,
                  app_main_init([BootWorld EXCEPT !.nvs = nvs, !.nvs_fail = f]))
    /\ now' = 0

\* One turn of the loop of state_task, one period after the turn before
SaveStateTask ==
    /\ last.op = "state_task" => last.at # now
    /\ SaveRan("state_task", <<>>, state_task(World))
    /\ UNCHANGED now

\* vTaskDelay at the end of the turn
SaveAdvance ==
    /\ last.op = "state_task" /\ last.at = now
    /\ now + TimeUnits(STATE_TASK_PERIOD_MS)
          <= MaxSavePeriods * TimeUnits(STATE_TASK_PERIOD_MS)
    /\ now' = now + TimeUnits(STATE_TASK_PERIOD_MS)
    /\ UNCHANGED <<state_ctx, servo_ctx, zigbee_ctx, nvs, last, prev, rt>>
    /\ UNCHANGED <<mcvars, tasks>>

SaveNext ==
    \/ SaveBoot
    \/ SaveStateTask
    \/ SaveAdvance

SaveSpec == Init /\ [][SaveNext]_vars

----------------------------------------------------------------------------
(* The inbound commands of the state machine: zigbee_command_handler with   *)
(* every mode tag and percentage in its two payload bytes, and the restart. *)

HandlerCommand ==
    /\ \E cmd \in CommandCodes, mode \in ModeTags, percentage \in Percentages :
          Returns("zigbee_command_handler", <<mode, percentage>>,
                  zigbee_command_handler(World, cmd, <<mode, percentage>>))
    /\ UNCHANGED now

HandlerStateTask ==
    /\ Returns("state_task", <<>>, state_task(World))
    /\ UNCHANGED now

HandlerRestart ==
    /\ Returns("restart", <<>>, app_main_init([BootWorld EXCEPT !.nvs = nvs]))
    /\ now' = 0

HandlerNext ==
    \/ HandlerCommand
    \/ HandlerStateTask
    \/ HandlerRestart

HandlerSpec == Init /\ [][HandlerNext]_vars

----------------------------------------------------------------------------
(* The motion controller as a state machine of its own *)

\* The sensor readings the environment may produce during one call
SensorInputs == IF trips < MaxTrips THEN TripSteps ELSE {0}

\* The call op(arg) into the motion controller ran and left the world R.
\* call.high: a reading of the call was above the threshold; call.override:
\* the last servo_simulate_resistance so far, if any, was given true;
\* call.lastcmd: the last <<servo, angle>> commanded; call.checks: the number
\* of sensor readings taken.
MotionEffects(op, arg, R) ==
    /\ handle_servo' = R.handle_servo
    /\ gap_servo' = R.gap_servo
    /\ current_window_mode' = R.current_window_mode
    /\ current_gap_percentage' = R.current_gap_percentage
    /\ resistance_detected' = R.resistance_detected
    /\ current_state' = R.current_state
    /\ device' = R.device
    /\ trips' = IF R.trip # 0 /\ R.checks >= R.trip THEN trips + 1 ELSE trips
    /\ call' = [op |-> op, arg |-> arg, ret |-> R.ret, tripped |-> R.tripped,
                pre |-> [mode |-> current_window_mode, gap |-> current_gap_percentage,
                         handle_servo |-> handle_servo, gap_servo |-> gap_servo],
                alerts |-> R.alerts,
                order |-> R.order, hitcmd |-> R.hitcmd, after_hit |-> R.after_hit,
                high |-> (R.trip # 0 /\ R.checks >= R.trip),
                attempts |-> R.attempts,
                override |-> IF op = "servo_simulate_resistance" THEN arg[1]
                             ELSE call.override,
                lastcmd |-> R.lastcmd, checks |-> R.checks]

MotionReturns(op, arg, R) ==
    /\ MotionEffects(op, arg, R)
    /\ UNCHANGED <<smvars, tasks>>

ServoSetWindowMode ==
    \E mode \in MotionModeTags, trip \in SensorInputs :
        MotionReturns("servo_set_window_mode", <<mode>>,
                      servo_set_window_mode(MotionWorld(trip), mode))

ServoSetGap ==
    \E percentage \in MotionPercentages, trip \in SensorInputs :
        MotionReturns("servo_set_gap", <<percentage>>,
                      servo_set_gap(MotionWorld(trip), percentage))

ServoSimulateResistance ==
    \E enable \in BOOLEAN :
        MotionReturns("servo_simulate_resistance", <<enable>>,
                      servo_simulate_resistance(MotionWorld(0), enable))

ServoDisable ==
    MotionReturns("servo_disable", <<>>, servo_disable(MotionWorld(0)))

HandleWindowEvents ==
    \E trip \in {t \in {0, 1} : t = 0 \/ trips < MaxTrips} :
        MotionReturns("handle_window_events", <<>>,
                      handle_window_events(MotionWorld(trip)))

ZigbeeOnCommand ==
    \E cmd \in MotionCommands, data \in MotionPayloads, trip \in SensorInputs :
        MotionReturns("zigbee_on_command", <<cmd>> \o data,
                      zigbee_on_command(MotionWorld(trip), cmd, data))

ZigbeeOnConnected ==
    MotionReturns("zigbee_on_connected", <<>>,
                  [MotionWorld(0) EXCEPT !.current_state = ZIGBEE_STATE_CONNECTED])

ZigbeeOnDisconnected ==
    MotionReturns("zigbee_on_disconnected", <<>>,
                  [MotionWorld(0) EXCEPT !.current_state = ZIGBEE_STATE_DISCONNECTED])

MotionNext ==
    \/ ServoSetWindowMode
    \/ ServoSetGap
    \/ ServoSimulateResistance
    \/ ServoDisable
    \/ HandleWindowEvents
    \/ ZigbeeOnCommand
    \/ ZigbeeOnConnected
    \/ ZigbeeOnDisconnected

MotionSpec == Init /\ [][MotionNext]_vars

----------------------------------------------------------------------------
(* The servo driver of main/servo_control.c on its own: set_servo_angle as  *)
(* the move loops call it, servo_disable, and servo_init that sets both     *)
(* servos up again.  prev is the driver call before the last one.           *)

Servos == {"handle_servo", "gap_servo"}

DriverReturns(op, arg, R) ==
    /\ MotionEffects(op, arg, R)
    /\ prev' = [op |-> call.op, arg |-> call.arg, ret |-> call.ret]
    /\ UNCHANGED <<state_ctx, servo_ctx, zigbee_ctx, nvs, now, last, rt, tasks,
                   zigbee_cmd_queue, ota_ctx, power_state>>

DriverSetAngle ==
    \E servo \in Servos, angle \in DriverAngles :
        DriverReturns("set_servo_angle", <<servo, angle>>,
                      set_servo_angle(MotionWorld(0), servo, angle))

DriverDisable ==
    DriverReturns("servo_disable", <<>>, servo_disable(MotionWorld(0)))

DriverInit ==
    DriverReturns("servo_init", <<>>, mc_servo_init(MotionWorld(0)))

DriverNext ==
    \/ DriverSetAngle
    \/ DriverDisable
    \/ DriverInit

DriverSpec == Init /\ [][DriverNext]_vars

----------------------------------------------------------------------------
(* The persisted record of the main-task firmware: the commands that        *)
(* zigbee_on_command applies, the state_save that main_task calls every     *)
(* STATE_SAVE_INTERVAL, and a restart that loads the record.  prev is the   *)
(* call before the last one.                                                *)

RecordCommand ==
    \E cmd \in TaskCommands, data \in RecordPayloads :
        DriverReturns("zigbee_on_command", <<cmd>> \o data,
                      zigbee_on_command(MotionWorld(0), cmd, data))

\* main_task: the periodic state_save()
RecordSave ==
    DriverReturns("state_save", <<>>, mc_state_save(MotionWorld(0)))

\* Power cycle: the statics are reinitialised, the NVS record stays
RecordRestart ==
    DriverReturns("restart", <<>>,
                  init_device([MotionBootWorld EXCEPT !.device.nvs = device.nvs]))

RecordNext ==
    \/ RecordCommand
    \/ RecordSave
    \/ RecordRestart

RecordSpec == Init /\ [][RecordNext]_vars

----------------------------------------------------------------------------
(* The main-task firmware from its boot on: init_device, then main_task     *)
(* that sets the window to the loaded state and switches the servos off     *)
(* before it enters its loop, and the commands that the ZigBee stack hands  *)
(* to zigbee_on_command.  tasks.main_task.pc is "restore_mode" until        *)
(* main_task has made its three calls and "poll" from then on.              *)

\* main_task, from its start to its for (;;) loop
main_task_start(W) ==
    Then(servo_set_window_mode(W, W.device.current_state.window_mode),
         LAMBDA W1 :
            Then(servo_set_gap(W1, W1.device.current_state.gap_percentage),
                 LAMBDA W2 : servo_disable(W2)))

BootRan(op, arg, R, main_task_pc) ==
    /\ MotionEffects(op, arg, R)
    /\ tasks' = [tasks EXCEPT !.main_task = TaskAt(main_task_pc)]

BootMainTask ==
    /\ tasks.main_task.pc = "restore_mode"
    /\ \E trip \in SensorInputs :
          BootRan("main_task", <<>>, main_task_start(MotionWorld(trip)), "poll")
    /\ UNCHANGED smvars

BootCommand ==
    /\ \E cmd \in MotionCommands, data \in RecordPayloads, trip \in SensorInputs :
          BootRan("zigbee_on_command", <<cmd>> \o data,
                  zigbee_on_command(MotionWorld(trip), cmd, data),
                  tasks.main_task.pc)
    /\ UNCHANGED smvars

\* Power cycle: the statics are reinitialised, main_task starts again
BootRestart ==
    /\ BootRan("restart", <<>>,
               init_device([MotionBootWorld EXCEPT !.device.nvs = device.nvs]),
               "restore_mode")
    /\ UNCHANGED smvars

BootNext ==
    \/ BootMainTask
    \/ BootCommand
    \/ BootRestart

BootSpec == Init /\ [][BootNext]_vars

----------------------------------------------------------------------------
(* The two tasks that call into the motion controller, step by step: each  *)
(* action is what a task runs from one vTaskDelay to the next.             *)

TaskNames == {"main_task", "zigbee_task"}

\* move_servo_smooth from its first statement to the first test of its for
\* loop: X.t.pc is "move" when the loop is entered, "ret" when the function
\* has returned X.w.ret
EnterMove(W, T, servo, target_angle) ==
    IF ~W[servo].is_enabled
    THEN [w |-> Ret(W, ESP_ERR_INVALID_STATE), t |-> [T EXCEPT !.pc = "ret"]]
    ELSE
    LET target == ClampAngle(target_angle)
        current == W[servo].current_angle
    IN IF current = target
       THEN [w |-> Ret([W EXCEPT ![servo].target_angle = target], ESP_OK),
             t |-> [T EXCEPT !.pc = "ret"]]
       ELSE [w |-> W,
             t |-> [T EXCEPT !.pc = "move", !.servo = servo, !.angle = current,
                             !.target = target, !.passes = 0,
                             !.step = IF current < target THEN 1 ELSE -1]]

\* Faulty variant: the loop goes two degrees at a time
MoveIteration_TwoDegrees(W, T) ==
    IF (T.target - T.angle) * T.step < 0
    THEN [w |-> Ret([W EXCEPT ![T.servo].target_angle = T.target], ESP_OK),
          t |-> [T EXCEPT !.pc = "ret"]]
    ELSE
    LET R == LoopIteration(W, T.servo, T.angle, T.step, 1)
    IN IF R.ret # ESP_OK THEN [w |-> R, t |-> [T EXCEPT !.pc = "ret"]]
       ELSE IF R.hit THEN [w |-> Ret(R, ESP_ERR_TIMEOUT), t |-> [T EXCEPT !.pc = "ret"]]
       ELSE [w |-> R, t |-> [T EXCEPT !.angle = @ + 2 * T.step, !.passes = @ + 1]]

\* One pass of the for loop of move_servo_smooth: the loop test, and either
\* the statements after the loop or the body up to its vTaskDelay and the
\* increment; the function does not read servo->current_angle again
MoveIteration(W, T) ==
    IF (T.target - T.angle) * T.step < 0
    THEN [w |-> Ret([W EXCEPT ![T.servo].target_angle = T.target], ESP_OK),
          t |-> [T EXCEPT !.pc = "ret"]]
    ELSE
    LET R == LoopIteration(W, T.servo, T.angle, T.step, 1)
    IN IF R.ret # ESP_OK THEN [w |-> R, t |-> [T EXCEPT !.pc = "ret"]]
       ELSE IF R.hit THEN [w |-> Ret(R, ESP_ERR_TIMEOUT), t |-> [T EXCEPT !.pc = "ret"]]
       ELSE [w |-> R, t |-> [T EXCEPT !.angle = @ + T.step, !.passes = @ + 1]]

\* The motion call of the task has returned: the task goes on after it
CallReturns(X) == [w |-> X.w, t |-> TaskAt(X.t.after)]

\* What the caller of move_servo_smooth does once it has returned
AfterMove(X) ==
    IF X.t.pc # "ret" THEN X
    ELSE IF X.t.op = "servo_set_window_mode" /\ X.t.phase = 1
    THEN IF X.w.ret # ESP_OK THEN CallReturns(X)
         ELSE IF X.t.arg = WINDOW_MODE_CLOSED
         THEN LET Y == EnterMove([X.w EXCEPT !.current_window_mode = X.t.arg,
                                             !.current_gap_percentage = 0],
                                 [X.t EXCEPT !.phase = 2], "gap_servo", 0)
              IN IF Y.t.pc = "ret"
                 THEN CallReturns([w |-> Ret(Y.w, ESP_OK), t |-> Y.t])
                 ELSE Y
         ELSE CallReturns([w |-> [X.w EXCEPT !.current_window_mode = X.t.arg],
                           t |-> X.t])
    ELSE IF X.t.op = "servo_set_window_mode"
    THEN CallReturns([w |-> Ret(X.w, ESP_OK), t |-> X.t])
    ELSE IF X.w.ret # ESP_OK THEN CallReturns(X)
    ELSE CallReturns([w |-> [X.w EXCEPT !.current_gap_percentage = X.t.arg],
                      t |-> X.t])

\* servo_set_window_mode(mode) up to the first vTaskDelay
BeginSetWindowMode(W, T, mode) ==
    IF mode \notin {WINDOW_MODE_CLOSED, WINDOW_MODE_OPEN, WINDOW_MODE_VENT}
    THEN CallReturns([w |-> Ret(W, ESP_ERR_INVALID_ARG), t |-> T])
    ELSE
    LET target_angle == CASE mode = WINDOW_MODE_CLOSED -> ANGLE_CLOSED
                          [] mode = WINDOW_MODE_OPEN -> ANGLE_OPEN
                          [] mode = WINDOW_MODE_VENT -> ANGLE_VENT
    IN AfterMove(EnterMove(W, [T EXCEPT !.op = "servo_set_window_mode",
                                        !.arg = mode, !.phase = 1],
                           "handle_servo", target_angle))

\* servo_set_gap(percentage) up to the first vTaskDelay
BeginSetGap(W, T, percentage) ==
    IF W.current_window_mode # WINDOW_MODE_OPEN
    THEN CallReturns([w |-> Ret(W, ESP_ERR_INVALID_STATE), t |-> T])
    ELSE
    LET clamped == IF percentage > 100 THEN 100 ELSE percentage
        target_angle == (clamped * GAP_ANGLE_RANGE) \div 100
    IN AfterMove(EnterMove(W, [T EXCEPT !.op = "servo_set_gap",
                                        !.arg = clamped, !.phase = 1],
                           "gap_servo", target_angle))

\* The task name ran up to its next vTaskDelay and left X.w and X.t
TaskRan(name, X) ==
    /\ tasks' = [tasks EXCEPT ![name] = X.t,
                              !.commands = IF name = "zigbee_task" /\ tasks[name].pc = "idle"
                                           THEN @ + 1 ELSE @]
    /\ handle_servo' = X.w.handle_servo
    /\ gap_servo' = X.w.gap_servo
    /\ current_window_mode' = X.w.current_window_mode
    /\ current_gap_percentage' = X.w.current_gap_percentage
    /\ resistance_detected' = X.w.resistance_detected
    /\ trips' = IF X.w.trip # 0 /\ X.w.checks >= X.w.trip THEN trips + 1 ELSE trips
    /\ UNCHANGED <<current_state, call, device>>
    /\ UNCHANGED smvars

\* The sensor reading of one pass of the loop: above the threshold or not
StepInputs == IF trips < MaxTrips THEN {0, 1} ELSE {0}

\* main_task: servo_set_window_mode(current_state.window_mode)
MainRestoreMode ==
    /\ tasks.main_task.pc = "restore_mode"
    /\ \E mode \in TaskModes :
          TaskRan("main_task",
                  BeginSetWindowMode(MotionWorld(0),
                                     [tasks.main_task EXCEPT !.after = "restore_gap"],
                                     mode))

\* main_task: servo_set_gap(current_state.gap_percentage)
MainRestoreGap ==
    /\ tasks.main_task.pc = "restore_gap"
    /\ \E percentage \in TaskPercentages :
          TaskRan("main_task",
                  BeginSetGap(MotionWorld(0),
                              [tasks.main_task EXCEPT !.after = "disable"],
                              percentage))

\* main_task: servo_disable() after the two calls
MainDisable ==
    /\ tasks.main_task.pc = "disable"
    /\ TaskRan("main_task", [w |-> servo_disable(MotionWorld(0)), t |-> TaskAt("poll")])

\* main_task: one turn of its for (;;) loop
MainPoll ==
    /\ tasks.main_task.pc = "poll"
    /\ \E trip \in StepInputs :
          TaskRan("main_task", [w |-> handle_window_events(MotionWorld(trip)),
                                t |-> TaskAt("poll")])

\* zigbee_task: zigbee_process_incoming_commands hands one command to
\* zigbee_on_command, which runs up to the first vTaskDelay
ZigbeeTaskCommand ==
    /\ tasks.zigbee_task.pc = "idle"
    /\ current_state # ZIGBEE_STATE_DISCONNECTED
    /\ tasks.commands < MaxTaskCommands
    /\ tasks.main_task.pc = "move" => tasks.main_task.passes <= MaxArrivalPass
    /\ \E cmd \in TaskCommands, data \in TaskPayloads :
          TaskRan("zigbee_task",
                  IF cmd = ESP_ZIGBEE_CMD_SET_MODE
                  THEN BeginSetWindowMode(MotionWorld(0), tasks.zigbee_task, data[1])
                  ELSE BeginSetGap(MotionWorld(0), tasks.zigbee_task, data[1]))

\* A task inside move_servo_smooth wakes from vTaskDelay and runs one pass
MoveStep ==
    \E name \in TaskNames, trip \in StepInputs :
        /\ tasks[name].pc = "move"
        /\ TaskRan(name, AfterMove(MoveIteration(MotionWorld(trip), tasks[name])))

\* The link comes up, wherever the two tasks stand
TaskOnConnected ==
    /\ current_state' = ZIGBEE_STATE_CONNECTED
    /\ UNCHANGED <<handle_servo, gap_servo, current_window_mode,
                   current_gap_percentage, resistance_detected, trips, call,
                   device, tasks>>
    /\ UNCHANGED smvars

\* One task alone, each pass of the loop of move_servo_smooth on record:    
\* call is the pass that was made, call.arg the servo_t, the loop variable
\* and the target the pass started with
PassRan(op, arg, X) ==
    /\ tasks' = [tasks EXCEPT !.zigbee_task = X.t]
    /\ MotionEffects(op, arg, X.w)
    /\ UNCHANGED smvars

\* zigbee_on_command up to the first vTaskDelay of the move it starts
PassBegin ==
    /\ tasks.zigbee_task.pc = "idle"
    /\ \E cmd \in TaskCommands, data \in RecordPayloads :
          PassRan("zigbee_on_command", <<cmd>> \o data,
                  IF cmd = ESP_ZIGBEE_CMD_SET_MODE
                  THEN BeginSetWindowMode(MotionWorld(0), tasks.zigbee_task, data[1])
                  ELSE BeginSetGap(MotionWorld(0), tasks.zigbee_task, data[1]))

\* The task wakes from vTaskDelay and makes the next pass
PassStep ==
    /\ tasks.zigbee_task.pc = "move"
    /\ \E trip \in StepInputs :
          LET T == tasks.zigbee_task
          IN PassRan("move_servo_smooth", <<T.servo, T.angle, T.target, T.passes>>,
                     AfterMove(MoveIteration(MotionWorld(trip), T)))

PassNext ==
    \/ PassBegin
    \/ PassStep

PassSpec == Init /\ [][PassNext]_vars

TaskNext ==
    \/ MainRestoreMode
    \/ MainRestoreGap
    \/ MainDisable
    \/ MainPoll
    \/ ZigbeeTaskCommand
    \/ MoveStep
    \/ TaskOnConnected

TaskSpec == Init /\ [][TaskNext]_vars

----------------------------------------------------------------------------
(* Vocabulary of the properties *)

st == state_ctx.state

CanonicalModes == {WINDOW_MODE_CLOSED, WINDOW_MODE_OPEN, WINDOW_MODE_VENTILATE}

\* The canonical (handle_angle, gap_percentage) of a mode, as the design states it
CanonicalPair(mode) ==
    CASE mode = WINDOW_MODE_CLOSED -> <<0, 0>>
      [] mode = WINDOW_MODE_OPEN -> <<90, 100>>
      [] mode = WINDOW_MODE_VENTILATE -> <<180, 20>>

ModePositionConsistent(s) ==
    s.mode \in CanonicalModes => <<s.handle_pos, s.gap_percentage>> = CanonicalPair(s.mode)

MutatingOps == {"state_set_window_mode", "state_set_handle_position",
                "state_set_gap_percentage", "state_restore", "state_factory_reset"}

\* The last call issued no actuator command, report, alert or persistence write
NoEffects ==
    /\ last.cmds = <<>>
    /\ last.reports = <<>>
    /\ last.alerts = <<>>
    /\ last.writes = 0

SamePosition(s, t) ==
    /\ s.mode = t.mode
    /\ s.handle_pos = t.handle_pos
    /\ s.gap_percentage = t.gap_percentage
    /\ s.calibrated = t.calibrated

----------------------------------------------------------------------------
(* C1: after every mutating operation of the state machine, a mode of Closed, *)
(* Open or Ventilate is held with its canonical (handle_angle, gap_percentage) *)
(* pair; any other pair is only held with mode Custom.                        *)
C1_ModePositionConsistency ==
    last.op \in MutatingOps => ModePositionConsistent(st)

----------------------------------------------------------------------------
(* C2: when the resistance sensor reports true at a step of a motion made    *)
(* for an operation, the operation returns the resistance error, the mode    *)
(* and gap percentage are left as they were, and exactly one Stuck alert is  *)
(* emitted.                                                                  *)
MotionOps == {"servo_set_window_mode", "servo_set_gap"}

ResistanceDuringMotion == call.op \in MotionOps /\ call.tripped

C2_ResistanceAbortsWithOneAlert ==
    ResistanceDuringMotion =>
        /\ call.ret = ESP_ERR_TIMEOUT
        /\ current_window_mode = call.pre.mode
        /\ current_gap_percentage = call.pre.gap
        /\ call.alerts = << <<ESP_ZIGBEE_ALERT_STUCK, 1>> >>

----------------------------------------------------------------------------
(* C3: for every valid mode M, the second of two set_mode(M) calls in a row  *)
(* is a no-op: it returns success, commands no actuator, emits no report or  *)
(* alert, writes nothing to persistence and leaves every field of the state  *)
(* unchanged.                                                                *)
ValidModes == {WINDOW_MODE_CLOSED, WINDOW_MODE_OPEN, WINDOW_MODE_VENTILATE,
               WINDOW_MODE_CUSTOM}

SecondSetMode ==
    /\ last.op = "state_set_window_mode"
    /\ prev.op = "state_set_window_mode"
    /\ prev.arg = last.arg
    /\ last.arg[1] \in ValidModes

C3_SetModeTwiceIsNoOp ==
    SecondSetMode => /\ last.ret = ESP_OK
                     /\ NoEffects
                     /\ st = last.pre

C3_Witness ==
    /\ SecondSetMode
    /\ last.arg = <<WINDOW_MODE_VENTILATE>>
    /\ st.mode = WINDOW_MODE_VENTILATE

----------------------------------------------------------------------------
(* C4: after a successful set_gap_percentage(p) with p different from the    *)
(* canonical percentage of the mode current at the call, the mode is Custom, *)
(* handle_angle is unchanged and gap_percentage is p.                        *)
DiffersFromCanonical(mode, p) ==
    mode \in CanonicalModes => p # CanonicalPair(mode)[2]

C4_NonCanonicalGapForcesCustom ==
    (/\ last.op = "state_set_gap_percentage"
     /\ last.ret = ESP_OK
     /\ DiffersFromCanonical(last.pre.mode, last.arg[1]))
    => /\ st.mode = WINDOW_MODE_CUSTOM
       /\ st.handle_pos = last.pre.handle_pos
       /\ st.gap_percentage = last.arg[1]

----------------------------------------------------------------------------
----------------------------------------------------------------------------
(* C6: a gap percentage above 100 is rejected with an error, no actuator is  *)
(* moved and the state is unchanged; the value is never clamped to 100.      *)
GapAboveRange == call.op = "servo_set_gap" /\ call.arg[1] > 100

C6_GapAboveRangeRejected ==
    /\ (last.op = "state_set_gap_percentage" /\ last.arg[1] > 100)
          => /\ last.ret = ESP_ERR_INVALID_ARG
             /\ last.cmds = <<>>
             /\ st = last.pre
    /\ GapAboveRange
          => /\ call.ret # ESP_OK
             /\ current_gap_percentage = call.pre.gap

----------------------------------------------------------------------------
(* C7: set_mode(Custom) is rejected with the invalid-mode error and changes  *)
(* nothing.                                                                  *)
SetModeCustom ==
    /\ last.op = "state_set_window_mode"
    /\ last.arg = <<WINDOW_MODE_CUSTOM>>

C7_SetModeCustomRejected ==
    SetModeCustom => /\ last.ret = ESP_ERR_INVALID_ARG
                     /\ NoEffects
                     /\ st = last.pre

(* C7, as the code has it: set_mode(Custom) succeeds and leaves the mode     *)
(* Custom with handle_angle and gap_percentage as they were, the gap         *)
(* actuator not being commanded; and the mode becomes Custom only in         *)
(* set_gap_percentage with a non-canonical (handle_angle, percentage) pair,  *)
(* in set_mode(Custom), in the handler of an inbound command whose mode tag  *)
(* is Open or Custom (it calls both), or when a persisted Custom record is   *)
(* loaded.                                                                   *)
EntersCustom == last.pre.mode # WINDOW_MODE_CUSTOM /\ st.mode = WINDOW_MODE_CUSTOM

C7_SetModeCustomAccepted ==
    /\ SetModeCustom =>
          /\ last.ret = ESP_OK
          /\ st.mode = WINDOW_MODE_CUSTOM
          /\ st.handle_pos = last.pre.handle_pos
          /\ st.gap_percentage = last.pre.gap_percentage
          /\ \A i \in 1 .. Len(last.cmds) : last.cmds[i][1] # SERVO_TYPE_GAP
    /\ EntersCustom =>
          \/ /\ last.op = "state_set_gap_percentage"
             /\ <<st.handle_pos, st.gap_percentage>>
                    \notin {CanonicalPair(m) : m \in CanonicalModes}
          \/ SetModeCustom
          \/ /\ last.op = "zigbee_command_handler"
             /\ Len(last.arg) >= 2
             /\ last.arg[1] \in {WINDOW_MODE_OPEN, WINDOW_MODE_CUSTOM}
          \/ /\ last.op \in {"state_restore", "restart"}
             /\ nvs[NVS_KEY_MODE] = WINDOW_MODE_CUSTOM

C7_Witness ==
    /\ SetModeCustom
    /\ EntersCustom
    /\ st.handle_pos = HANDLE_POSITION_OPEN
    /\ st.gap_percentage = 100

----------------------------------------------------------------------------
(* C8: set_mode(M) for M in {Closed, Open, Ventilate} other than the current *)
(* mode commits M with its canonical pair, sets in_motion, stamps            *)
(* last_action_time and emits exactly one mode-changed event with            *)
(* (M, canonical percentage of M).                                           *)
SetModeToOther ==
    /\ last.op = "state_set_window_mode"
    /\ last.arg[1] \in CanonicalModes
    /\ last.arg[1] # last.pre.mode

C8_SetModeCommitsCanonical ==
    SetModeToOther =>
        LET M == last.arg[1]
        IN /\ last.ret = ESP_OK
           /\ st.mode = M
           /\ <<st.handle_pos, st.gap_percentage>> = CanonicalPair(M)
           /\ st.in_motion
           /\ st.last_action_time = last.at
           /\ last.reports = << <<M, CanonicalPair(M)[2]>> >>
           /\ last.alerts = << <<ZIGBEE_ALERT_MODE_CHANGED, M>> >>

C8_Witness ==
    /\ SetModeToOther
    /\ last.pre.mode = WINDOW_MODE_CLOSED
    /\ last.arg = <<WINDOW_MODE_OPEN>>
    /\ last.at > 0
    /\ st.handle_pos = 90 /\ st.gap_percentage = 100

----------------------------------------------------------------------------
(* C9: save(), then a restart that keeps the storage, then restore() yields  *)
(* the mode, handle_angle, gap_percentage and calibrated flag that were      *)
(* saved.                                                                    *)
C9_RestoreRoundTrip ==
    rt.phase = 3 => SamePosition(st, rt.saved)

C9_Witness ==
    /\ rt.phase = 3
    /\ rt.saved.mode = WINDOW_MODE_CUSTOM
    /\ rt.saved.handle_pos = HANDLE_POSITION_VENTILATE
    /\ rt.saved.gap_percentage = 100

----------------------------------------------------------------------------
(* C10: a successful factory_reset() leaves Closed / 0 / 0 / uncalibrated,   *)
(* with both actuators commanded to 0, the persisted record erased and a     *)
(* Closed state reported; a second factory_reset() right after it yields the *)
(* same state again.                                                         *)
FactoryResetDone == last.op = "state_factory_reset" /\ last.ret = ESP_OK

C10_FactoryReset ==
    /\ FactoryResetDone =>
          /\ st.mode = WINDOW_MODE_CLOSED
          /\ st.handle_pos = 0
          /\ st.gap_percentage = 0
          /\ ~st.calibrated
          /\ last.cmds = << <<SERVO_TYPE_HANDLE, 0>>, <<SERVO_TYPE_GAP, 0>> >>
          /\ servo_ctx.handle_pos = 0 /\ servo_ctx.gap_percentage = 0
          /\ nvs = EmptyNvs
          /\ last.reports = << <<WINDOW_MODE_CLOSED, 0>> >>
    /\ (FactoryResetDone /\ prev.op = "state_factory_reset" /\ prev.ret = ESP_OK)
          => SamePosition(st, last.pre)

C10_Witness ==
    /\ FactoryResetDone
    /\ last.pre.mode = WINDOW_MODE_CUSTOM
    /\ last.pre.gap_percentage = 20
    /\ last.writes > 0

C10_WitnessTwice ==
    /\ FactoryResetDone
    /\ prev.op = "state_factory_reset"

----------------------------------------------------------------------------
(* Claims about the motion controller under two tasks, faults and commands *)

\* The task is between two steps of a move_servo_smooth loop, having
\* commanded at least one angle
InMotion(name) == tasks[name].pc = "move" /\ tasks[name].passes > 0

SetModeCall ==
    \/ call.op = "servo_set_window_mode"
    \/ /\ call.op = "zigbee_on_command"
       /\ Len(call.arg) >= 2
       /\ call.arg[1] = ESP_ZIGBEE_CMD_SET_MODE

\* C12: within one set_mode call the handle is commanded before the gap,
\* the gap is commanded only if the handle motion returned success, and
\* when the handle motion fails the gap servo receives no command.
C12_HandleBeforeGap ==
    SetModeCall =>
        /\ call.order \in {<<>>, <<"handle_servo">>, <<"gap_servo">>,
                           <<"handle_servo", "gap_servo">>}
        /\ call.ret # ESP_OK => call.order \in {<<>>, <<"handle_servo">>}

\* set_mode(Closed) with the gap open, aborted during the handle motion
C12_Witness ==
    /\ call.op = "servo_set_window_mode"
    /\ call.arg = <<WINDOW_MODE_CLOSED>>
    /\ call.ret = ESP_ERR_TIMEOUT
    /\ call.order = <<"handle_servo">>
    /\ gap_servo.current_angle > 0

\* set_mode(Closed) that moved the handle and then the gap
C12_WitnessBoth ==
    /\ call.op = "servo_set_window_mode"
    /\ call.ret = ESP_OK
    /\ call.order = <<"handle_servo", "gap_servo">>

\* A call that moves a servo, during which a sensor check returned true
TrippedMove ==
    /\ call.op \in {"servo_set_window_mode", "servo_set_gap", "zigbee_on_command"}
    /\ call.tripped

\* The servo_t that was commanded last before the check returned true
HitServo == IF call.hitcmd[1] = "handle_servo" THEN handle_servo ELSE gap_servo

\* C13: when the sensor check returns true after the servo was commanded to
\* the angle a during a move, no angle is commanded after it, the servo's
\* recorded current angle is a, and the move returns the resistance error
\* (seen in the call's result when the call returns the result of that move:
\* servo_set_gap, and servo_set_window_mode for its handle move).
C13_ResistanceStopsMove ==
    TrippedMove =>
        /\ call.hitcmd # <<>>
        /\ call.after_hit = 0
        /\ HitServo.current_angle = call.hitcmd[2]
        /\ (\/ call.op = "servo_set_gap"
            \/ call.op = "servo_set_window_mode" /\ call.hitcmd[1] = "handle_servo")
           => call.ret = ESP_ERR_TIMEOUT

\* set_gap from the closed gap towards 50 %, stopped by the sensor on the way
C13_Witness ==
    /\ call.op = "servo_set_gap"
    /\ call.arg = <<50>>
    /\ call.tripped
    /\ call.ret = ESP_ERR_TIMEOUT
    /\ call.hitcmd = <<"gap_servo", TripStep - 1>>
    /\ gap_servo.current_angle = TripStep - 1
    /\ resistance_detected

----------------------------------------------------------------------------
(* C14: the resistance latch is not permanent: after a motion has aborted   *)
(* on resistance, a motion command issued while the sensor signal is at or  *)
(* below the threshold and no simulation override is set is not stopped by  *)
(* resistance (it runs to its target), and the resistance flag is cleared.  *)
QuietMotion ==
    /\ call.op \in MotionOps
    /\ ~call.high
    /\ ~call.override

C14_LatchClears ==
    QuietMotion => /\ call.ret # ESP_ERR_TIMEOUT
                   /\ ~call.tripped
                   /\ ~resistance_detected

----------------------------------------------------------------------------
(* C15: the sensor check returns true exactly when the signal exceeds the   *)
(* threshold or the simulation override is set, whatever earlier checks     *)
(* returned (seen in handle_window_events, which makes one check).          *)
C15_CheckFollowsSignal ==
    call.op = "handle_window_events" =>
        (call.tripped <=> (call.high \/ call.override))

----------------------------------------------------------------------------
(* C16: whenever resistance is detected an outward alert send is attempted, *)
(* whatever the connection state of the link: the poll of main_task that    *)
(* finds resistance calls zigbee_send_alert.                                *)
ResistanceFound == call.op = "handle_window_events" /\ call.tripped

C16_AlertAlwaysAttempted == ResistanceFound => call.attempts >= 1

----------------------------------------------------------------------------
(* C17: if restore() fails on a persistence error, also part-way through    *)
(* reading the fields, it returns that error and every field of the window  *)
(* state is exactly as it was before the call.                              *)
RestoreFailed == last.op = "state_restore" /\ last.nvs_failed

C17_FailedRestoreKeepsState ==
    RestoreFailed => /\ last.ret = ESP_FAIL
                     /\ st = last.pre

----------------------------------------------------------------------------
(* C18: if the persistence write triggered by a successful set_mode,        *)
(* set_handle_position or set_gap_percentage fails, the operation still     *)
(* returns success, the state keeps the new values, and the state report    *)
(* is still emitted.                                                        *)
SetOpSaveFailed ==
    /\ last.op \in {"state_set_window_mode", "state_set_handle_position",
                    "state_set_gap_percentage"}
    /\ last.nvs_failed

NewValuesKept ==
    CASE last.op = "state_set_window_mode" ->
            /\ st.mode = last.arg[1]
            /\ st.handle_pos = CanonicalHandle(last.arg[1])
            /\ st.gap_percentage = CanonicalGap(last.arg[1])
      [] last.op = "state_set_handle_position" ->
            /\ st.handle_pos = last.arg[1]
            /\ st.mode = ModeOfHandle(last.arg[1])
            /\ st.gap_percentage = last.pre.gap_percentage
      [] last.op = "state_set_gap_percentage" ->
            /\ st.gap_percentage = last.arg[1]
            /\ st.handle_pos = last.pre.handle_pos

C18_SaveFailureIsNotFatal ==
    SetOpSaveFailed =>
        /\ last.ret = ESP_OK
        /\ NewValuesKept
        /\ last.reports = << <<st.mode, st.gap_percentage>> >>

\* set_mode(Open) whose first NVS write fails: nothing was persisted
C18_Witness ==
    /\ SetOpSaveFailed
    /\ last.op = "state_set_window_mode"
    /\ last.arg = <<WINDOW_MODE_OPEN>>
    /\ last.writes = 0
    /\ st.mode = WINDOW_MODE_OPEN
    /\ nvs[NVS_KEY_MODE] # WINDOW_MODE_OPEN

\* set_gap_percentage whose NVS commit fails after the four writes
C18_WitnessCommit ==
    /\ SetOpSaveFailed
    /\ last.op = "state_set_gap_percentage"
    /\ last.writes = 4

----------------------------------------------------------------------------
(* C19: an inbound command whose payload holds an invalid mode tag or a     *)
(* percentage above 100 is rejected before any hardware action: no servo    *)
(* is commanded and the window state is unchanged, so the mode part is not  *)
(* applied when the percentage part is invalid.                             *)
InvalidCommand ==
    /\ last.op = "zigbee_command_handler"
    /\ Len(last.arg) >= 2
    /\ \/ last.arg[1] \notin ValidModes
       \/ last.arg[2] > 100

C19_InvalidCommandRejected ==
    InvalidCommand => /\ last.cmds = <<>>
                      /\ st = last.pre

----------------------------------------------------------------------------
(* C20: a malformed inbound command (a command code the handler does not    *)
(* know, or a mode / position command with a payload shorter than 2 bytes)  *)
(* is dropped: no servo is commanded and mode and gap are unchanged.        *)
MalformedCommand ==
    /\ call.op = "zigbee_on_command"
    /\ \/ call.arg[1] \notin {ESP_ZIGBEE_CMD_SET_MODE, ESP_ZIGBEE_CMD_SET_POSITION,
                              ESP_ZIGBEE_CMD_CALIBRATE}
       \/ /\ call.arg[1] \in {ESP_ZIGBEE_CMD_SET_MODE, ESP_ZIGBEE_CMD_SET_POSITION}
          /\ Len(call.arg) - 1 < 2

C20_MalformedCommandDropped ==
    MalformedCommand => /\ call.order = <<>>
                        /\ current_window_mode = call.pre.mode
                        /\ current_gap_percentage = call.pre.gap

----------------------------------------------------------------------------
(* C21: after a successful restore(), the handle position and the gap       *)
(* percentage last commanded to the two actuators are the handle_pos and    *)
(* gap_percentage of the restored state, and the restored mode was reported *)
(* once.                                                                    *)
RestoreSucceeded == last.op = "state_restore" /\ last.ret = ESP_OK

C21_RestoreReappliesState ==
    RestoreSucceeded =>
        /\ servo_get_handle_position(World) = st.handle_pos
        /\ servo_get_gap_percentage(World) = st.gap_percentage
        /\ last.cmds = << <<SERVO_TYPE_HANDLE, st.handle_pos>>,
                          <<SERVO_TYPE_GAP, st.gap_percentage>> >>
        /\ last.reports = << <<st.mode, st.gap_percentage>> >>

\* restore() after save() and a restart: the servo module was reset to
\* Closed, the record loaded is Open
C21_Witness ==
    /\ RestoreSucceeded
    /\ rt.phase = 3
    /\ st.mode = WINDOW_MODE_OPEN
    /\ servo_ctx.handle_pos = HANDLE_POSITION_OPEN
    /\ servo_ctx.gap_percentage = OPEN_GAP_PERCENTAGE

----------------------------------------------------------------------------
(* C22: tick() clears in_motion when it is set and at least 5000 ms have    *)
(* passed since last_action_time, leaves it set while less than 5000 ms     *)
(* have passed, and never sets it; so after the last motion command         *)
(* in_motion eventually becomes false while tick() keeps being called.      *)
Ticked == last.op = "state_task"

\* What the clock showed at the tick, minus the stamp the tick found
SinceLastAction == U64Sub(last.at, last.pre.last_action_time)

TickKeepsOrClears ==
    Ticked => st.in_motion = (/\ last.pre.in_motion
                              /\ SinceLastAction < TimeUnits(MOTION_TIMEOUT_MS))

C22_TickClearsInMotion ==
    /\ []TickKeepsOrClears
    /\ st.in_motion ~> ~st.in_motion

\* A tick 2500 ms after the stamp found in_motion set and left it set
C22_Witness ==
    /\ Ticked
    /\ last.pre.in_motion
    /\ st.in_motion
    /\ SinceLastAction = TimeUnits(TickStepMs)

\* A tick 5000 ms after the stamp cleared it
C22_WitnessCleared ==
    /\ Ticked
    /\ last.pre.in_motion
    /\ ~st.in_motion
    /\ SinceLastAction = TimeUnits(MOTION_TIMEOUT_MS)

----------------------------------------------------------------------------
(* C23: get_state() is a read apart from its position refresh: it changes   *)
(* neither mode, calibrated, in_motion nor last_action_time, issues no      *)
(* actuator command, report or persistence write, and the handle_pos and    *)
(* gap_percentage it returns are the values last commanded to the servos.   *)
GotState == last.op = "state_get_window_state"

C23_GetStateIsRead ==
    GotState =>
        /\ st.mode = last.pre.mode
        /\ st.calibrated = last.pre.calibrated
        /\ st.in_motion = last.pre.in_motion
        /\ st.last_action_time = last.pre.last_action_time
        /\ NoEffects
        /\ st.handle_pos = servo_get_handle_position(World)
        /\ st.gap_percentage = servo_get_gap_percentage(World)

\* After a restart the stored record is Open and the servos are at Closed:
\* the refresh replaced both positions and left the mode
C23_Witness ==
    /\ GotState
    /\ st.mode = WINDOW_MODE_OPEN
    /\ last.pre.handle_pos = HANDLE_POSITION_OPEN
    /\ st.handle_pos = HANDLE_POSITION_CLOSED
    /\ last.pre.gap_percentage = OPEN_GAP_PERCENTAGE
    /\ st.gap_percentage = 0

----------------------------------------------------------------------------
(* C24: a move whose target angle is the servo's current angle returns      *)
(* success at once with zero steps: no set_angle call is made and the       *)
(* recorded angle of the servo is unchanged.                                *)

\* The calls that consist of one move_servo_smooth: the servo they move
MovedServo ==
    IF call.op = "servo_set_gap" THEN "gap_servo" ELSE "handle_servo"

\* and the angle they pass as its target
MoveTarget ==
    IF call.op = "servo_set_gap"
    THEN ((IF call.arg[1] > 100 THEN 100 ELSE call.arg[1]) * GAP_ANGLE_RANGE) \div 100
    ELSE IF call.arg[1] = WINDOW_MODE_OPEN THEN ANGLE_OPEN ELSE ANGLE_VENT

MoveAtTarget ==
    /\ \/ call.op = "servo_set_gap" /\ call.pre.mode = WINDOW_MODE_OPEN
       \/ /\ call.op = "servo_set_window_mode"
          /\ call.arg[1] \in {WINDOW_MODE_OPEN, WINDOW_MODE_VENT}
    /\ call.pre[MovedServo].current_angle = MoveTarget

ZeroSteps ==
    /\ call.ret = ESP_OK
    /\ call.order = <<>>
    /\ handle_servo.current_angle = call.pre.handle_servo.current_angle
    /\ gap_servo.current_angle = call.pre.gap_servo.current_angle

\* The statement without a condition on the servo
C24_MoveAtTargetIsNoOp == MoveAtTarget => ZeroSteps

\* The statement for a servo that is enabled; one that is not enabled gets
\* the not-ready error, and no step either
C24_EnabledMoveAtTargetIsNoOp ==
    /\ (MoveAtTarget /\ call.pre[MovedServo].is_enabled) => ZeroSteps
    /\ (MoveAtTarget /\ ~call.pre[MovedServo].is_enabled) =>
          /\ call.ret = ESP_ERR_INVALID_STATE
          /\ call.order = <<>>
          /\ handle_servo = call.pre.handle_servo
          /\ gap_servo = call.pre.gap_servo

\* servo_set_gap(50) with the gap servo enabled and at 45 degrees already
C24_Witness ==
    /\ MoveAtTarget
    /\ call.op = "servo_set_gap"
    /\ call.arg = <<50>>
    /\ call.pre.gap_servo.is_enabled
    /\ gap_servo.current_angle = 45
    /\ call.ret = ESP_OK

----------------------------------------------------------------------------
(* C25: set_angle on a servo that is not enabled fails with the not-ready   *)
(* error and leaves the recorded angle unchanged; on an enabled servo,      *)
(* setting the same angle twice succeeds both times and leaves the servo    *)
(* in the state it was in after the first call.                             *)
SetAngleCall == call.op = "set_servo_angle"

SetAngleAgain ==
    /\ SetAngleCall
    /\ prev.op = "set_servo_angle"
    /\ prev.arg = call.arg
    /\ prev.ret = ESP_OK

ServosAsBefore ==
    /\ handle_servo = call.pre.handle_servo
    /\ gap_servo = call.pre.gap_servo

C25_SetAngleNeedsEnable ==
    /\ (SetAngleCall /\ ~call.pre[call.arg[1]].is_enabled) =>
          (call.ret = ESP_ERR_INVALID_STATE /\ ServosAsBefore)
    /\ (SetAngleCall /\ call.pre[call.arg[1]].is_enabled) => call.ret = ESP_OK
    /\ SetAngleAgain => (call.ret = ESP_OK /\ ServosAsBefore)

\* set_angle(90) on the disabled gap servo, which stays at 180
C25_Witness ==
    /\ SetAngleCall
    /\ call.arg = <<"gap_servo", 90>>
    /\ ~gap_servo.is_enabled
    /\ gap_servo.current_angle = 180
    /\ call.ret = ESP_ERR_INVALID_STATE

\* The second of two set_angle(90) on the enabled handle servo
C25_WitnessTwice ==
    /\ SetAngleAgain
    /\ call.arg = <<"handle_servo", 90>>
    /\ handle_servo.is_enabled
    /\ handle_servo.current_angle = 90
    /\ call.ret = ESP_OK

----------------------------------------------------------------------------
(* C26: servo_set_gap works only in the Open mode: in any other window mode *)
(* it returns an error, commands no servo and leaves the recorded gap       *)
(* percentage unchanged.                                                    *)
SetGapOutsideOpen ==
    call.op = "servo_set_gap" /\ call.pre.mode # WINDOW_MODE_OPEN

C26_SetGapOnlyInOpenMode ==
    SetGapOutsideOpen =>
        /\ call.ret = ESP_ERR_INVALID_STATE
        /\ call.order = <<>>
        /\ gap_servo = call.pre.gap_servo
        /\ handle_servo = call.pre.handle_servo
        /\ current_gap_percentage = call.pre.gap
        /\ current_window_mode = call.pre.mode

\* servo_set_gap(50) in the Vent mode, both servos enabled
C26_Witness ==
    /\ SetGapOutsideOpen
    /\ call.arg = <<50>>
    /\ current_window_mode = WINDOW_MODE_VENT
    /\ gap_servo.is_enabled
    /\ gap_servo.current_angle = 0

----------------------------------------------------------------------------
(* C27: the persisted record tracks committed mutations: once an inbound    *)
(* command has changed the window mode or the gap, the record written by    *)
(* the next save carries the new mode and gap percentage.                   *)
SavedAfterCommand ==
    /\ call.op = "state_save"
    /\ call.ret = ESP_OK
    /\ prev.op = "zigbee_on_command"
    /\ prev.ret = ESP_OK

C27_RecordTracksCommands ==
    SavedAfterCommand =>
        /\ device.nvs[NVS_KEY_WINDOW_MODE] = current_window_mode
        /\ device.nvs[NVS_KEY_GAP_PERCENTAGE] = current_gap_percentage

----------------------------------------------------------------------------
(* C28: in a move with no resistance the angles commanded to the servo go   *)
(* toward the target by exactly one degree per step, every set_angle is     *)
(* followed by exactly one resistance check before the next set_angle, and  *)
(* on return the recorded angle of the servo is the target.                 *)
PassMade == call.op = "move_servo_smooth"

PassServo == IF call.arg[1] = "handle_servo" THEN handle_servo ELSE gap_servo

Distance(a, b) == IF a >= b THEN a - b ELSE b - a

\* The pass found the loop variable beyond the target: the move returned
LoopEnded == PassMade /\ call.order = <<>> /\ call.checks = 0

\* The pass ran the loop body: one set_servo_angle, then one check
BodyRan ==
    /\ PassMade
    /\ call.order = <<call.arg[1]>>
    /\ call.lastcmd = <<call.arg[1], call.arg[2]>>
    /\ call.checks = 1

\* The angle of the pass against the one commanded before it
OneDegreeCloser ==
    LET before == call.pre[call.arg[1]].current_angle
    IN IF call.arg[4] = 0 THEN call.arg[2] = before
       ELSE /\ Distance(call.arg[2], before) = 1
            /\ Distance(call.arg[3], call.arg[2]) = Distance(call.arg[3], before) - 1

C28_MoveStepsOneDegree ==
    PassMade =>
        /\ LoopEnded \/ BodyRan
        /\ BodyRan => OneDegreeCloser
        /\ LoopEnded => /\ call.ret = ESP_OK
                        /\ PassServo.current_angle = call.arg[3]
                        /\ PassServo.target_angle = call.arg[3]

\* A pass in the middle of the handle's way up from 0 to 90
C28_Witness ==
    /\ BodyRan
    /\ ~call.tripped
    /\ call.arg = <<"handle_servo", 45, 90, 45>>
    /\ handle_servo.current_angle = 45

\* A pass of the handle's way down from 90 to 0
C28_WitnessDown ==
    /\ BodyRan
    /\ ~call.tripped
    /\ call.arg = <<"handle_servo", 30, 0, 60>>
    /\ handle_servo.current_angle = 30

\* The pass that ends the gap's way from 0 to 45
C28_WitnessReturn ==
    /\ LoopEnded
    /\ call.arg = <<"gap_servo", 46, 45, 46>>
    /\ gap_servo.current_angle = 45
    /\ current_gap_percentage = 50

----------------------------------------------------------------------------
(* C29: when set_mode, set_handle_position or set_gap_percentage has        *)
(* returned success after changing the state, in_motion is true, and it     *)
(* stays true until 5000 ms after the stamped last_action_time, however     *)
(* the operation was interleaved with the turns of state_task.              *)
SetOperationCommitted ==
    /\ tasks.zigbee_task.pc = "idle"
    /\ prev.op \in RaceOps
    /\ prev.ret = ESP_OK

SinceStamp == U64Sub(now, st.last_action_time)

C29_InMotionUntilTimeout ==
    (SetOperationCommitted /\ SinceStamp < TimeUnits(MOTION_TIMEOUT_MS))
        => st.in_motion

----------------------------------------------------------------------------
(* C30: a record that the automatic save of state_task persists while a set *)
(* operation runs in another task has a (mode, handle position, gap         *)
(* percentage) that is entirely the state before the operation or entirely  *)
(* the state after it.                                                      *)
Position(s) == <<s.mode, s.handle_pos, s.gap_percentage>>

PersistedPosition ==
    <<nvs[NVS_KEY_MODE], nvs[NVS_KEY_HANDLE_POS], nvs[NVS_KEY_GAP_PERCENTAGE]>>

AutoSavedDuringSetOperation ==
    /\ last.op = "state_task"
    /\ last.writes > 0
    /\ tasks.zigbee_task.pc = "assign"

C30_AutoSaveSeesWholeState ==
    AutoSavedDuringSetOperation =>
        PersistedPosition \in {Position(tasks.zigbee_task.before),
                               Position(tasks.zigbee_task.after)}

----------------------------------------------------------------------------
(* C31: tick() persists the state exactly when persistence is enabled and   *)
(* at least the auto-save interval has passed since the previous auto-save  *)
(* (or the boot); two consecutive auto-saves are never closer than the      *)
(* interval, and while tick() keeps running the time since the previous one *)
(* stays below the interval plus one tick period.                           *)
PersistenceEnabled == state_ctx.config.save_to_nvs /\ state_ctx.nvs_opened

\* The clock since the previous auto-save, or since the boot before the first
SinceAutoSave == now - (IF prev.op = "state_task" THEN prev.arg[1] ELSE 0)

TickPersisted == last'.op = "state_task" /\ now' = now /\ last'.writes > 0

TickDidNotPersist == last'.op = "state_task" /\ now' = now /\ last'.writes = 0

AutoSaveWhenDue ==
    /\ TickPersisted =>
          PersistenceEnabled /\ SinceAutoSave >= TimeUnits(SAVE_INTERVAL_MS)
    /\ TickDidNotPersist =>
          ~(PersistenceEnabled /\ SinceAutoSave >= TimeUnits(SAVE_INTERVAL_MS))

AutoSaveInTime ==
    PersistenceEnabled =>
        SinceAutoSave < TimeUnits(SAVE_INTERVAL_MS) + TimeUnits(STATE_TASK_PERIOD_MS)

C31_AutoSaveEveryInterval ==
    /\ [][AutoSaveWhenDue]_vars
    /\ []AutoSaveInTime

\* The second auto-save since the boot, two intervals after it
C31_Witness ==
    /\ last.op = "state_task"
    /\ last.writes > 0
    /\ prev.arg = <<2 * TimeUnits(SAVE_INTERVAL_MS)>>
    /\ now = 2 * TimeUnits(SAVE_INTERVAL_MS)
    /\ state_ctx.last_save_time = now

\* A turn of the loop an interval after a boot at which nvs_open failed
C31_WitnessDisabled ==
    /\ last.op = "state_task"
    /\ last.writes = 0
    /\ ~PersistenceEnabled
    /\ now = TimeUnits(SAVE_INTERVAL_MS)

----------------------------------------------------------------------------
(* C32: once main_task has finished the restoration it makes at boot, a     *)
(* set-mode command that arrives while no resistance is present succeeds    *)
(* and drives the handle servo to the angle of the requested mode.          *)
RestorationFinished == tasks.main_task.pc = "poll"

SetModeCommand ==
    /\ call.op = "zigbee_on_command"
    /\ call.arg[1] = ESP_ZIGBEE_CMD_SET_MODE
    /\ Len(call.arg) = 2
    /\ call.arg[2] \in {WINDOW_MODE_CLOSED, WINDOW_MODE_OPEN, WINDOW_MODE_VENT}

ModeAngle(mode) ==
    CASE mode = WINDOW_MODE_CLOSED -> ANGLE_CLOSED
      [] mode = WINDOW_MODE_OPEN -> ANGLE_OPEN
      [] OTHER -> ANGLE_VENT

C32_SetModeAfterRestoration ==
    (RestorationFinished /\ SetModeCommand /\ trips = 0 /\ ~resistance_detected)
        => /\ current_window_mode = call.arg[2]
           /\ handle_servo.current_angle = ModeAngle(call.arg[2])

----------------------------------------------------------------------------
(* C33: when the inbound-command handler has finished a command, the (mode, *)
(* percentage) it last passed to the outward state report is the committed  *)
(* (mode, gap_percentage) of the state machine.                             *)
HandledCommand == last.op = "zigbee_command_handler"

LastReported == <<zigbee_ctx.current_mode, zigbee_ctx.current_percentage>>

C33_HandlerReportsCommittedState ==
    HandledCommand => LastReported = <<st.mode, st.gap_percentage>>

----------------------------------------------------------------------------
(* The link: zigbee_device.c over esp_zigbee_lib.c.  The set operations     *)
(* make report requests, zigbee_device_start / zigbee_device_stop and the   *)
(* connection timer drive the library, whose callbacks set event bits, and  *)
(* zigbee_command_task takes the bits.  prev holds the most recent report   *)
(* request, rt the last link callback the library delivered.                *)

\* The link callback that the library delivered on the way to R, if any
LinkCallback(R) ==
    IF /\ R.zigbee_ctx.zb_ctx.state = ESP_ZIGBEE_STATE_PAIRED
       /\ zigbee_ctx.zb_ctx.state # ESP_ZIGBEE_STATE_PAIRED
    THEN [callback |-> "zigbee_on_connected"]
    ELSE IF /\ R.zigbee_ctx.zb_ctx.state = ESP_ZIGBEE_STATE_DISCONNECTED
            /\ zigbee_ctx.zb_ctx.state # ESP_ZIGBEE_STATE_DISCONNECTED
         THEN [callback |-> "zigbee_on_disconnected"]
    ELSE rt

LinkRan(op, arg, R) ==
    /\ state_ctx' = R.state_ctx
    /\ servo_ctx' = R.servo_ctx
    /\ zigbee_ctx' = R.zigbee_ctx
    /\ nvs' = R.nvs
    /\ last' = CallRecord(op, arg, R)
    /\ prev' = IF R.reports # <<>>
               THEN [op |-> "zigbee_device_report_state",
                     arg |-> R.reports[Len(R.reports)], ret |-> R.ret]
               ELSE prev
    /\ rt' = LinkCallback(R)
    /\ UNCHANGED <<now, tasks>>

LinkSetMode ==
    /\ \E mode \in ModeTags :
          LinkRan("state_set_window_mode", <<mode>>, state_set_window_mode(World, mode))
    /\ UNCHANGED mcvars

LinkSetGap ==
    /\ \E percentage \in Percentages :
          LinkRan("state_set_gap_percentage", <<percentage>>,
                  state_set_gap_percentage(World, percentage))
    /\ UNCHANGED mcvars

LinkStart ==
    /\ LinkRan("zigbee_device_start", <<>>, zigbee_device_start(World))
    /\ UNCHANGED mcvars

LinkStop ==
    /\ LinkRan("zigbee_device_stop", <<>>, zigbee_device_stop(World))
    /\ UNCHANGED mcvars

\* The connection timer fires while the library is connecting
LinkTimer ==
    /\ zigbee_ctx.zb_ctx.state = ESP_ZIGBEE_STATE_CONNECTING
    /\ LinkRan("zigbee_connection_timer_callback", <<>>,
               zigbee_connection_timer_callback(World))
    /\ UNCHANGED mcvars

\* xEventGroupWaitBits returns to zigbee_command_task with the pending bits
LinkCommandTask ==
    /\ zigbee_ctx.event_group # {}
    /\ LinkRan("zigbee_command_task", <<>>, zigbee_command_task(World))
    /\ UNCHANGED mcvars

LinkNext ==
    \/ LinkSetMode
    \/ LinkSetGap
    \/ LinkStart
    \/ LinkStop
    \/ LinkTimer
    \/ LinkCommandTask

LinkSpec == Init /\ [][LinkNext]_vars

\* The command task is scheduled whenever event bits are pending
LinkLiveSpec == LinkSpec /\ WF_vars(LinkCommandTask)

----------------------------------------------------------------------------
(* C34: every window-state report handed to the ZigBee library, directly by *)
(* zigbee_device_report_state or replayed by the command task when the link *)
(* connects, carries the mode and percentage of the most recent report      *)
(* request; a window in Custom mode is never reported as Closed.            *)
ReportRequested == prev.op = "zigbee_device_report_state"

\* The window mode that a mode of the library stands for
WindowModeOf(zigbee_mode) ==
    CASE zigbee_mode = ESP_ZIGBEE_WINDOW_MODE_CLOSED -> WINDOW_MODE_CLOSED
      [] zigbee_mode = ESP_ZIGBEE_WINDOW_MODE_OPEN -> WINDOW_MODE_OPEN
      [] zigbee_mode = ESP_ZIGBEE_WINDOW_MODE_VENTILATE -> WINDOW_MODE_VENTILATE

\* This step put a new window-state message on the library's queue
ReportHanded == zigbee_ctx'.zb_ctx.message # zigbee_ctx.zb_ctx.message

HandedCarriesRequest ==
    ReportHanded /\ ReportRequested' =>
        /\ WindowModeOf(zigbee_ctx'.zb_ctx.message[1]) = prev'.arg[1]
        /\ zigbee_ctx'.zb_ctx.message[2] = prev'.arg[2]

C34_HandedReportIsLastRequest == [][HandedCarriesRequest]_vars

----------------------------------------------------------------------------
(* C36: the link state returned by zigbee_device_get_state() converges to   *)
(* the last link callback the library delivered: if on_connected was the    *)
(* last one the state eventually becomes CONNECTED and stays so, if         *)
(* on_disconnected was the last one it eventually becomes DISCONNECTED,     *)
(* however the command task is scheduled relative to the callbacks.         *)
LastCallback == IF "callback" \in DOMAIN rt THEN rt.callback ELSE "none"

LinkState == zigbee_device_get_state(World)

----------------------------------------------------------------------------
(* C35: whenever servo_set_window_mode(CLOSED) returns success, the gap     *)
(* servo's recorded angle is 0 and the recorded gap percentage is 0.        *)
SetClosedSucceeded ==
    /\ call.op = "servo_set_window_mode"
    /\ call.arg = <<WINDOW_MODE_CLOSED>>
    /\ call.ret = ESP_OK

C35_ClosedMeansGapShut ==
    SetClosedSucceeded => /\ gap_servo.current_angle = 0
                          /\ current_gap_percentage = 0

----------------------------------------------------------------------------
(* The queue-based ZigBee handler: the stack callback zigbee_attribute_cb   *)
(* puts commands on zigbee_cmd_queue, zigbee_process_incoming_commands      *)
(* takes them off and drives the motion controller.  The identifiers of the *)
(* ZigBee SDK stand for themselves.  prev.arg holds the commands the        *)
(* callback has received, in arrival order, rt.executed the commands the    *)
(* drain loop has executed.                                                 *)

ESP_ZB_ZCL_ATTR_WRITE_CMD_RCV == "ESP_ZB_ZCL_ATTR_WRITE_CMD_RCV"
ESP_ZB_ZCL_CMD_RCV == "ESP_ZB_ZCL_CMD_RCV"
ESP_ZB_HA_WINDOW_COVERING_CLUSTER_ID == "ESP_ZB_HA_WINDOW_COVERING_CLUSTER_ID"
LIFT_PERCENTAGE_ID == "ESP_ZB_ZCL_ATTR_WINDOW_COVERING_CURRENT_POS_LIFT_PERCENTAGE_ID"
TILT_PERCENTAGE_ID == "ESP_ZB_ZCL_ATTR_WINDOW_COVERING_CURRENT_POS_TILT_PERCENTAGE_ID"
CMD_UP_OPEN == "ESP_ZB_ZCL_CMD_WINDOW_COVERING_UP_OPEN"
CMD_DOWN_CLOSE == "ESP_ZB_ZCL_CMD_WINDOW_COVERING_DOWN_CLOSE"
CMD_STOP == "ESP_ZB_ZCL_CMD_WINDOW_COVERING_STOP"
CMD_GO_TO_LIFT_PERCENTAGE == "ESP_ZB_ZCL_CMD_WINDOW_COVERING_GO_TO_LIFT_PERCENTAGE"
CMD_GO_TO_TILT_PERCENTAGE == "ESP_ZB_ZCL_CMD_WINDOW_COVERING_GO_TO_TILT_PERCENTAGE"

\* xQueueSend(queue, item, 0): the item is dropped when the queue is full
xQueueSend(queue, item) ==
    IF Len(queue) < ZIGBEE_CMD_QUEUE_LENGTH THEN Append(queue, item) ELSE queue

\* The zigbee_cmd_t that zigbee_attribute_cb builds from an event (<<>>: none)
AttributeCommand(id, cluster, attr_id, value, cmd_id) ==
    IF id = ESP_ZB_ZCL_ATTR_WRITE_CMD_RCV
    THEN IF cluster # ESP_ZB_HA_WINDOW_COVERING_CLUSTER_ID THEN <<>>
         ELSE IF attr_id = LIFT_PERCENTAGE_ID
              THEN << [command |-> CMD_GO_TO_LIFT_PERCENTAGE, param |-> value] >>
         ELSE IF attr_id = TILT_PERCENTAGE_ID
              THEN << [command |-> CMD_GO_TO_TILT_PERCENTAGE, param |-> value] >>
         ELSE <<>>
    ELSE IF id = ESP_ZB_ZCL_CMD_RCV
    THEN IF cluster # ESP_ZB_HA_WINDOW_COVERING_CLUSTER_ID THEN <<>>
         ELSE << [command |-> cmd_id, param |-> 0] >>
    ELSE <<>>

zigbee_attribute_cb(queue, id, cluster, attr_id, value, cmd_id) ==
    LET cmd == AttributeCommand(id, cluster, attr_id, value, cmd_id)
    IN IF cmd = <<>> THEN queue ELSE xQueueSend(queue, cmd[1])

\* The body of the drain loop of zigbee_process_incoming_commands for cmd
ProcessCommand(W, cmd) ==
    CASE cmd.command = CMD_UP_OPEN -> servo_set_window_mode(W, WINDOW_MODE_OPEN)
      [] cmd.command = CMD_DOWN_CLOSE -> servo_set_window_mode(W, WINDOW_MODE_CLOSED)
      [] cmd.command = CMD_STOP -> W
      [] cmd.command = CMD_GO_TO_LIFT_PERCENTAGE ->
            IF cmd.param = 0 THEN servo_set_window_mode(W, WINDOW_MODE_CLOSED)
            ELSE IF cmd.param < LIFT_OPEN_PERCENTAGE
                 THEN servo_set_window_mode(W, WINDOW_MODE_VENT)
            ELSE servo_set_window_mode(W, WINDOW_MODE_OPEN)
      [] cmd.command = CMD_GO_TO_TILT_PERCENTAGE -> servo_set_gap(W, cmd.param)
      [] OTHER -> W

QueueEventIds == {ESP_ZB_ZCL_ATTR_WRITE_CMD_RCV, ESP_ZB_ZCL_CMD_RCV}
QueueClusters == {ESP_ZB_HA_WINDOW_COVERING_CLUSTER_ID, "other"}
QueueAttributes == {LIFT_PERCENTAGE_ID}
QueueValues == {100}
QueueCommandIds == {CMD_DOWN_CLOSE}

Received == IF prev.op = "zigbee_attribute_cb" THEN prev.arg ELSE <<>>

Executed == IF "executed" \in DOMAIN rt THEN rt.executed ELSE <<>>

\* The ZigBee stack delivers an event to zigbee_attribute_cb
QueueAttributeCb ==
    /\ Len(Received) < MaxArrivals
    /\ \E id \in QueueEventIds, cluster \in QueueClusters,
          attr_id \in QueueAttributes, value \in QueueValues,
          cmd_id \in QueueCommandIds :
          /\ zigbee_cmd_queue' =
                zigbee_attribute_cb(zigbee_cmd_queue, id, cluster, attr_id, value, cmd_id)
          /\ prev' = [op |-> "zigbee_attribute_cb",
                      arg |-> Received
                              \o AttributeCommand(id, cluster, attr_id, value, cmd_id),
                      ret |-> ESP_OK]
    /\ UNCHANGED <<state_ctx, servo_ctx, zigbee_ctx, nvs, now, last, rt, tasks,
                   ota_ctx, power_state>>
    /\ UNCHANGED <<handle_servo, gap_servo, current_window_mode,
                   current_gap_percentage, resistance_detected, current_state,
                   trips, call, device>>

\* One turn of the drain loop: xQueueReceive took the head of the queue
QueueProcessCommand ==
    /\ zigbee_cmd_queue # <<>>
    /\ MotionEffects("zigbee_process_incoming_commands",
                     <<Head(zigbee_cmd_queue).command, Head(zigbee_cmd_queue).param>>,
                     ProcessCommand(MotionWorld(0), Head(zigbee_cmd_queue)))
    /\ zigbee_cmd_queue' = Tail(zigbee_cmd_queue)
    /\ rt' = [executed |-> Append(Executed, Head(zigbee_cmd_queue))]
    /\ UNCHANGED <<state_ctx, servo_ctx, zigbee_ctx, nvs, now, last, prev, tasks,
                   ota_ctx, power_state>>

QueueNext ==
    \/ QueueAttributeCb
    \/ QueueProcessCommand

QueueSpec == Init /\ [][QueueNext]_vars

----------------------------------------------------------------------------
(* C37: in the queue-based handler every command received by the stack      *)
(* callback is executed by zigbee_process_incoming_commands exactly once    *)
(* and in arrival order; none is lost, also when commands arrive faster     *)
(* than they are drained.                                                   *)
ExecutedInArrivalOrder ==
    /\ Len(Executed) <= Len(Received)
    /\ Executed = SubSeq(Received, 1, Len(Executed))

QueueDrained == zigbee_cmd_queue = <<>>

C37_EveryCommandExecutedOnce ==
    /\ ExecutedInArrivalOrder
    /\ QueueDrained => Executed = Received

----------------------------------------------------------------------------
(* The OTA module: the ota task and the requests of its public interface.   *)
(* last holds the most recent call and whether a check of it found a new    *)
(* version.                                                                 *)

OtaWorld == [ota_ctx |-> ota_ctx, now |-> now, found |-> FALSE, ret |-> ESP_OK]

OtaRan(op, R) ==
    /\ ota_ctx' = R.ota_ctx
    /\ last' = [op |-> op, ret |-> R.ret, at |-> now, found |-> R.found]
    /\ UNCHANGED <<state_ctx, servo_ctx, zigbee_ctx, nvs, prev, rt, tasks,
                   zigbee_cmd_queue, power_state>>
    /\ UNCHANGED <<handle_servo, gap_servo, current_window_mode,
                   current_gap_percentage, resistance_detected, current_state,
                   trips, call, device>>

OtaStart ==
    /\ OtaRan("ota_start", ota_start(OtaWorld))
    /\ UNCHANGED now

OtaStop ==
    /\ OtaRan("ota_stop", ota_stop(OtaWorld))
    /\ UNCHANGED now

\* The ota task runs one iteration of its loop
OtaTask ==
    /\ ota_ctx.update_task_running
    /\ \E update_available \in BOOLEAN :
          /\ update_available => ota_ctx.config.firmware_version[3] < MaxOtaPatch
          /\ OtaRan("ota_task_handler", ota_task_handler(OtaWorld, update_available))
    /\ UNCHANGED now

OtaCheckUpdate ==
    /\ \E update_available \in BOOLEAN :
          /\ update_available => ota_ctx.config.firmware_version[3] < MaxOtaPatch
          /\ OtaRan("ota_check_update", ota_check_update(OtaWorld, update_available))
    /\ UNCHANGED now

OtaDownloadUpdate ==
    /\ OtaRan("ota_download_update", ota_download_update(OtaWorld))
    /\ UNCHANGED now

OtaApplyUpdate ==
    /\ OtaRan("ota_apply_update", ota_apply_update(OtaWorld))
    /\ UNCHANGED now

\* Half a check interval passes
OtaAdvance ==
    /\ now < MaxOtaAdvances * (TimeUnits(OTA_CHECK_INTERVAL_MS) \div 2)
    /\ now' = now + TimeUnits(OTA_CHECK_INTERVAL_MS) \div 2
    /\ UNCHANGED <<state_ctx, servo_ctx, zigbee_ctx, nvs, last, prev, rt, tasks>>
    /\ UNCHANGED mcvars

OtaNext ==
    \/ OtaStart
    \/ OtaStop
    \/ OtaTask
    \/ OtaCheckUpdate
    \/ OtaDownloadUpdate
    \/ OtaApplyUpdate
    \/ OtaAdvance

OtaSpec == Init /\ [][OtaNext]_vars

\* The ota task keeps running, and download requests keep being made
OtaLiveSpec == OtaSpec /\ WF_vars(OtaTask) /\ WF_vars(OtaDownloadUpdate)

----------------------------------------------------------------------------
(* C38: whenever an OTA check finds a new version, the OTA state eventually *)
(* reaches READY_TO_APPLY or ERROR; it does not remain in DOWNLOADING       *)
(* forever.                                                                 *)
CheckFoundNewVersion ==
    /\ last.op \in {"ota_check_update", "ota_task_handler"}
    /\ last.found

OtaState == ota_get_state(OtaWorld)

C38_FoundVersionIsDownloaded ==
    CheckFoundNewVersion ~> (OtaState \in {OTA_STATE_READY_TO_APPLY, OTA_STATE_ERROR})

----------------------------------------------------------------------------
(* Long uptimes: the motion flag while the 64-bit millisecond clock passes  *)
(* 2^32 ms, which the uint32_t last_action_time cannot hold.  prev is the   *)
(* last set operation that succeeded and changed the state, prev.arg the    *)
(* full clock value at which it ran.                                        *)

UptimeRan(op, arg, R) ==
    /\ state_ctx' = R.state_ctx
    /\ servo_ctx' = R.servo_ctx
    /\ zigbee_ctx' = R.zigbee_ctx
    /\ nvs' = R.nvs
    /\ last' = CallRecord(op, arg, R)
    /\ prev' = IF op # "state_task" /\ R.ret = ESP_OK /\ R.cmds # <<>>
               THEN [op |-> op, arg |-> <<now>>, ret |-> R.ret]
               ELSE prev
    /\ UNCHANGED <<now, rt, tasks>>

UptimeSetWindowMode ==
    /\ \E mode \in FaultModes :
          UptimeRan("state_set_window_mode", <<mode>>, state_set_window_mode(World, mode))
    /\ UNCHANGED mcvars

UptimeSetGapPercentage ==
    /\ \E percentage \in FaultPercentages :
          UptimeRan("state_set_gap_percentage", <<percentage>>,
                    state_set_gap_percentage(World, percentage))
    /\ UNCHANGED mcvars

\* One turn of the loop of state_task
UptimeStateTask ==
    /\ UptimeRan("state_task", <<>>, state_task(World))
    /\ UNCHANGED mcvars

UptimeAdvance ==
    /\ (now % UINT32_RANGE_UNITS) + TimeUnits(TickStepMs) <= TickHorizon
    /\ now' = now + TimeUnits(TickStepMs)
    /\ UNCHANGED <<state_ctx, servo_ctx, zigbee_ctx, nvs, last, prev, rt, tasks>>
    /\ UNCHANGED mcvars

\* 2^32 ms pass
UptimeWrap ==
    /\ now < UINT32_RANGE_UNITS
    /\ now' = now + UINT32_RANGE_UNITS
    /\ UNCHANGED <<state_ctx, servo_ctx, zigbee_ctx, nvs, last, prev, rt, tasks>>
    /\ UNCHANGED mcvars

UptimeNext ==
    \/ UptimeSetWindowMode
    \/ UptimeSetGapPercentage
    \/ UptimeStateTask
    \/ UptimeAdvance
    \/ UptimeWrap

UptimeSpec == Init /\ [][UptimeNext]_vars

----------------------------------------------------------------------------
(* C39: for every uptime, also beyond 2^32 ms, tick() does not clear        *)
(* in_motion before 5000 ms have passed since the last successful           *)
(* state-changing operation.                                                *)
TickClearedInMotion ==
    /\ last.op = "state_task"
    /\ last.pre.in_motion
    /\ ~state_ctx.state.in_motion

SinceLastOperation == last.at - prev.arg[1]

C39_InMotionHeldForTimeout ==
    TickClearedInMotion /\ prev.op # "none"
        => SinceLastOperation >= TimeUnits(MOTION_TIMEOUT_MS)

----------------------------------------------------------------------------
(* The power task of the main-task firmware next to the command callback.   *)
(* prev is the last command that zigbee_on_command handled, prev.arg the    *)
(* time at which it did.                                                    *)

PowerAwake == ~power_state.asleep

PowerCommand ==
    /\ PowerAwake
    /\ \E cmd \in MotionCommands, data \in RecordPayloads :
          MotionEffects("zigbee_on_command", <<cmd>> \o data,
                        zigbee_on_command(MotionWorld(0), cmd, data))
    /\ prev' = [op |-> "zigbee_on_command", arg |-> <<now>>, ret |-> ESP_OK]
    /\ UNCHANGED <<state_ctx, servo_ctx, zigbee_ctx, nvs, now, last, rt, tasks,
                   zigbee_cmd_queue, ota_ctx, power_state>>

\* One turn of the loop of power_task_handler
PowerTask ==
    /\ PowerAwake
    /\ power_state' = power_task_handler(power_state, now)
    /\ UNCHANGED <<state_ctx, servo_ctx, zigbee_ctx, nvs, now, last, prev, rt, tasks,
                   zigbee_cmd_queue, ota_ctx>>
    /\ UNCHANGED <<handle_servo, gap_servo, current_window_mode,
                   current_gap_percentage, resistance_detected, current_state,
                   trips, call, device>>

PowerAdvance ==
    /\ PowerAwake
    /\ now + TimeUnits(PowerStepMs) <= MaxPowerSteps * TimeUnits(PowerStepMs)
    /\ now' = now + TimeUnits(PowerStepMs)
    /\ UNCHANGED <<state_ctx, servo_ctx, zigbee_ctx, nvs, last, prev, rt, tasks>>
    /\ UNCHANGED mcvars

PowerNext ==
    \/ PowerCommand
    \/ PowerTask
    \/ PowerAdvance

PowerSpec == Init /\ [][PowerNext]_vars

----------------------------------------------------------------------------
(* C40: with auto-sleep enabled the power task puts the device into deep    *)
(* sleep only after sleep_timeout_ms have passed without a handled window   *)
(* command; handling a command restarts the inactivity period.              *)
InDeepSleep == power_state.asleep

CommandHandled == prev.op = "zigbee_on_command"

SinceLastCommand == now - prev.arg[1]

C40_SleepOnlyAfterInactivity ==
    InDeepSleep /\ CommandHandled
        => SinceLastCommand >= TimeUnits(power_state.config.sleep_timeout_ms)

====
